---- MODULE Spec2Model ----
(***************************************************************************)
(* Pattern-aggregation calibration engine of CorrELF.                      *)
(*                                                                         *)
(* The model covers the binarizer (train/weight/preprocess.py and          *)
(* test/preprocess.py), the two histogram aggregators                      *)
(* (weight/find_weights.py and test/evaluate.py), the metrics engine       *)
(* (eval_thresholds_from_counts) and the record scanner with its           *)
(* per-record metrics (train/final_threshold/find_threshold.py).           *)
(*                                                                         *)
(* Real numbers are fixed-point integers: scores, weights and score        *)
(* thresholds in units of 1e-8, raw detector values and their thresholds   *)
(* in units of 1e-9.  A column cell is a record [kind, v] with kind        *)
(* "num" (v is the value), "nan" (a null cell or NaN), "pinf" or "ninf".   *)
(***************************************************************************)
EXTENDS Integers, Sequences, FiniteSets, TLC

\* ------------------------------------------------------------------ bounds

\* Rows of the Parquet dataset that the aggregators scan.
MaxRows == 2

\* Rows of the dataset that the subsampling scan of find_threshold.py reads.
MaxScanRows == 4

\* Largest number of rows the Arrow scanner hands over in one batch.
MaxBatch == 2

\* ------------------------------------------------------------- cell values

NaN == [kind |-> "nan", v |-> 0]

PosInf == [kind |-> "pinf", v |-> 0]

NegInf == [kind |-> "ninf", v |-> 0]

Num(n) == [kind |-> "num", v |-> n]

\* Python's None: a JSON null, or a key that is absent (dict.get).
None == [kind |-> "null", v |-> 0]

\* np.isfinite and np.isnan on one cell.
isfinite(c) == c.kind = "num"

isnan(c) == c.kind = "nan"

\* The numpy comparison c >= t against a finite t.
Ge(c, t) == c.kind = "pinf" \/ (c.kind = "num" /\ c.v >= t)

\* The partitions (src_family=...) of the dataset.
Families == {"busybox", "dropbear"}

\* A cell of an int8 column read with to_numpy(zero_copy_only=False): 0, 1,
\* or NaN where the Parquet cell is null.
BinCells == {Num(0), Num(1), NaN}

\* ------------------------------------------------------------ bit algebra

Pow2(k) == IF k = 0 THEN 1 ELSE IF k = 1 THEN 2 ELSE IF k = 2 THEN 4 ELSE 8

\* x << k and x >> k on non-negative integers.
Shl(x, k) == x * Pow2(k)

Shr(x, k) == x \div Pow2(k)

BitAt(x, i) == Shr(x, i) % 2

\* a | b and a & b on 4-bit non-negative integers.
BitOr(a, b) ==
    LET o(i) == IF BitAt(a, i) = 1 \/ BitAt(b, i) = 1 THEN Pow2(i) ELSE 0
    IN  o(0) + o(1) + o(2) + o(3)

BitAnd(a, b) ==
    LET o(i) == IF BitAt(a, i) = 1 /\ BitAt(b, i) = 1 THEN Pow2(i) ELSE 0
    IN  o(0) + o(1) + o(2) + o(3)

Patterns == 0..7

Labels == {0, 1}

\* np.zeros((8, 2), dtype=np.int64)
ZeroCounts == [p \in Patterns |-> [l \in Labels |-> 0]]

\* np.bincount(pats, minlength=8) for a sequence of patterns in 0..7.
bincount(pats) ==
    [p \in Patterns |-> Cardinality({i \in DOMAIN pats : pats[i] = p})]

\* The numpy selection a[sel]: the entries of a where the mask sel is true.
Masked(a, sel) ==
    LET idx == SelectSeq([i \in DOMAIN a |-> i], LAMBDA i : sel[i])
    IN  [k \in DOMAIN idx |-> a[idx[k]]]

\* AddHist with the histogram assigned instead of added
\* (counts[:len(hist), lbl] = hist).
AddHistAssigned(cnt, y, pat) ==
    [p \in Patterns |->
        [l \in Labels |->
            LET sel == [i \in DOMAIN y |-> y[i] = l]
                hist == bincount(Masked(pat, sel))
            IN  IF \E i \in DOMAIN sel : sel[i] THEN hist[p] ELSE cnt[p][l]]]

\* "for lbl in (0, 1)": sel = (y == lbl), and if np.any(sel) the bincount of
\* pat[sel] is added to column lbl (counts[:len(hist), lbl] += hist).
AddHist(cnt, y, pat) ==
    [p \in Patterns |->
        [l \in Labels |->
            LET sel == [i \in DOMAIN y |-> y[i] = l]
                hist == bincount(Masked(pat, sel))
            IN  IF \E i \in DOMAIN sel : sel[i] THEN cnt[p][l] + hist[p] ELSE cnt[p][l]]]

\* Sum of f[x] over the finite set S.
RECURSIVE SumOver(_, _)
SumOver(f, S) ==
    IF S = {} THEN 0
    ELSE LET x == CHOOSE x \in S : TRUE IN f[x] + SumOver(f, S \ {x})

\* sorted(set(...)): the members of a finite set of integers, ascending.
RECURSIVE sorted(_)
sorted(S) ==
    IF S = {} THEN <<>>
    ELSE LET m == CHOOSE m \in S : \A x \in S : m <= x IN <<m>> \o sorted(S \ {m})

\* The members of a sequence.
Range(s) == {s[i] : i \in DOMAIN s}

\* All sequences over S of length at most n.
SeqsUpTo(S, n) == UNION {[1..k -> S] : k \in 0..n}

\* A quotient n/d kept exact, whatever d is: "x / d", undefined when d = 0.
RatioUnguarded(n, d) == [n |-> n, d |-> d]

\* A quotient n/d kept exact; the code's "x / d if d else 0.0".
Ratio(n, d) == IF d = 0 THEN [n |-> 0, d |-> 1] ELSE [n |-> n, d |-> d]

RatSub(a, b) == [n |-> a.n * b.d - b.n * a.d, d |-> a.d * b.d]

RatLess(a, b) == a.n * b.d < b.n * a.d

\* ------------------------------------------------------------------ state

VARIABLES
    data,              \* the Parquet dataset being scanned: a sequence of rows
    scripts,           \* the scripts run on the dataset
    families,          \* find_weights.py --families ({} when not given)
    by_family,         \* evaluate.py --by-family
    threshold_arg,     \* evaluate.py --threshold (<<>> when not given)
    lpc,               \* find_weights.py: where main() is
    lpos,              \* find_weights.py: rows the scanner has handed over
    counts,            \* find_weights.py: the 8x2 histogram
    total_seen,        \* find_weights.py
    total_kept,        \* find_weights.py
    design,            \* find_weights.py: the rows of (X_small, y_small, w_small)
    fit_calls,         \* find_weights.py: calls of clf.fit so far
    coef,              \* find_weights.py: clf.coef_[0] (<<>> before the fit)
    weights,           \* find_weights.py: the weights returned (<<>> before)
    model_out,         \* find_weights.py: the JSON written to --out (<<>>: none)
    epc,               \* evaluate.py: where main() is
    epos,              \* evaluate.py: rows the scanner has handed over
    counts_global,     \* evaluate.py: the 8x2 histogram
    counts_by_family,  \* evaluate.py: family -> 8x2 histogram
    n_pos,             \* evaluate.py
    n_neg,             \* evaluate.py
    rows_global,       \* evaluate.py: one metrics row per threshold
    best_idx,          \* evaluate.py: index of the best Youden J row
    rows_fam_all,      \* evaluate.py: family -> its metrics rows
    family,            \* find_threshold.py --family ("": none)
    neg_pos_ratio,     \* find_threshold.py --neg-pos-ratio, as [num, den]
    max_rows,          \* find_threshold.py --max-rows (0: no limit)
    spc,               \* find_threshold.py: where scan_weighted_scores is
    spos,              \* find_threshold.py: rows the scanner has handed over
    xs,                \* find_threshold.py: the scores kept
    ys,                \* find_threshold.py: the labels kept
    pos,               \* find_threshold.py: positives kept
    neg,               \* find_threshold.py: negatives kept
    roc,               \* find_threshold.py: the points of roc_curve, thr finite
    best_j,            \* find_threshold.py: the Youden operating point
    rec_thrs,          \* find_threshold.py: one operating point per recall target
    wpc,               \* weight/preprocess.py: where process is
    wpos,              \* weight/preprocess.py: rows the scanner has handed over
    total_in,          \* weight/preprocess.py: rows read
    total_out,         \* weight/preprocess.py: rows written
    table,             \* weight/preprocess.py: the table of the last write
    out_files,         \* weight/preprocess.py: partition -> rows of its part-0 file
    json_dir,          \* eval_all.py, eval_by_family.py: the *.json files, sorted
    json_families,     \* eval_by_family.py: the families list
    jpc,               \* eval_all.py: where evaluate_overall_from_json_dir is
    jfile,             \* eval_all.py: files the loop is through with
    overall,           \* eval_all.py: tp, fp, tn, fn and rows
    overall_row,       \* eval_all.py: the row returned (<<>> before)
    fpc,               \* eval_by_family.py: where evaluate_from_json_dir is
    ffile,             \* eval_by_family.py: files the loop is through with
    fam_counts,        \* eval_by_family.py: counts, family -> tp, fp, tn, fn, rows
    fam_rows,          \* eval_by_family.py: the rows returned (<<>> before)
    input_dir,         \* rep_threshold/preprocess.py: the JSON files, sorted
    chunk_rows,        \* rep_threshold/preprocess.py --chunk-rows
    has_ijson,         \* rep_threshold/preprocess.py: HAS_IJSON
    rpc,               \* rep_threshold/preprocess.py: where preprocess is
    rfile,             \* rep_threshold/preprocess.py: files the loop is through with
    robj,              \* rep_threshold/preprocess.py: objects taken of the file at hand
    buffer,            \* rep_threshold/preprocess.py
    total_rows,        \* rep_threshold/preprocess.py
    kept_rows,         \* rep_threshold/preprocess.py
    files_ok,          \* rep_threshold/preprocess.py
    files_bad,         \* rep_threshold/preprocess.py
    chunks,            \* rep_threshold/preprocess.py: the tables written so far
    output_dir,        \* rep_threshold/preprocess.py: partition -> rows of its part-0 file
    meta,              \* rep_threshold/preprocess.py: _meta.json (<<>>: not written)
    tmp_path,          \* collect_elfs.py: the extracted archive, directory -> entry
    has_archive,       \* collect_elfs.py: the image has a rootfs.tar*
    walked,            \* collect_elfs.py: the entries rglob has yielded
    seen,              \* collect_elfs.py: base name -> times found
    elfs_dir,          \* collect_elfs.py: elfs/, file name -> directory copied from
    cpc                \* collect_elfs.py: where extract_elfs_from_roots() is

inputVars == <<data, scripts, families, by_family, threshold_arg,
               family, neg_pos_ratio, max_rows>>

pickVars == <<roc, best_j, rec_thrs>>

scannerVars == <<spc, spos, xs, ys, pos, neg, pickVars>>

binarizerVars == <<wpc, wpos, total_in, total_out, table, out_files>>

fitVars == <<fit_calls, coef, weights, model_out>>

learnerVars == <<lpc, lpos, counts, total_seen, total_kept, design, fitVars>>

evaluatorVars == <<epc, epos, counts_global, counts_by_family, n_pos, n_neg,
                   rows_global, best_idx, rows_fam_all>>

jsonVars == <<json_dir, json_families, jpc, jfile, overall, overall_row,
              fpc, ffile, fam_counts, fam_rows>>

repVars == <<input_dir, chunk_rows, has_ijson, rpc, rfile, robj, buffer,
             total_rows, kept_rows, files_ok, files_bad, chunks, output_dir, meta>>

collectVars == <<tmp_path, has_archive, walked, seen, elfs_dir, cpc>>

vars == <<inputVars, learnerVars, evaluatorVars, scannerVars, binarizerVars,
          jsonVars, repVars, collectVars>>

\* --------------------------------------------------- weight/find_weights.py

FEATURES == <<"PROGRAM_HEADER_VECTOR", "CODE_REGION_LIST", "STRING_MINHASH">>

\* The column of the dataset that holds a detector's flag.
BIN_COLS ==
    [PROGRAM_HEADER_VECTOR |-> "ph", CODE_REGION_LIST |-> "cr", STRING_MINHASH |-> "sm"]

\* _bits_from_pattern returning the bits from bit 0 upwards.
bits_from_pattern_low_first(p) ==
    <<BitAnd(Shr(p, 0), 1), BitAnd(Shr(p, 1), 1), BitAnd(Shr(p, 2), 1)>>

\* _bits_from_pattern
bits_from_pattern(p) ==
    LET b0 == BitAnd(Shr(p, 0), 1)
        b1 == BitAnd(Shr(p, 1), 1)
        b2 == BitAnd(Shr(p, 2), 1)
    IN  <<b2, b1, b0>>

\* pat = ((ph << 2) | (cr << 1) | sm) of a row that passed the mask.
LearnerPattern(r) == BitOr(BitOr(Shl(r.ph.v, 2), Shl(r.cr.v, 1)), r.sm.v)

\* LearnerMask without the test of the program-header flag.
LearnerMaskNoPh(r) ==
    /\ isfinite(r.y) /\ isfinite(r.sm) /\ isfinite(r.cr)
    /\ (families # {} => r.fam \in families)

\* mask = isfinite(y) & isfinite(sm) & isfinite(cr) & isfinite(ph), and
\* with --families also np.isin(fam, families).
LearnerMask(r) ==
    /\ isfinite(r.y) /\ isfinite(r.sm) /\ isfinite(r.cr) /\ isfinite(r.ph)
    /\ (families # {} => r.fam \in families)

\* The body of "for b in scanner.to_batches()" on the histogram.
LearnerCounts(cnt, b) ==
    LET kept == SelectSeq(b, LearnerMask)
        y    == [i \in DOMAIN kept |-> kept[i].y.v]
        pat  == [i \in DOMAIN kept |-> LearnerPattern(kept[i])]
    IN  IF kept = <<>> THEN cnt ELSE AddHist(cnt, y, pat)

\* One iteration of "for b in scanner.to_batches()" on the next n rows.
LearnerBatch(n) ==
    /\ "find_weights" \in scripts
    /\ lpc = "scan"
    /\ lpos + n <= Len(data)
    /\ LET b    == SubSeq(data, lpos + 1, lpos + n)
           kept == SelectSeq(b, LearnerMask)
       IN  /\ lpos' = lpos + n
           /\ total_seen' = total_seen + n
           /\ counts' = LearnerCounts(counts, b)
           /\ total_kept' = IF kept = <<>> THEN total_kept ELSE total_kept + Len(kept)
    /\ UNCHANGED <<lpc, design, fitVars, inputVars, collectVars, repVars, jsonVars, evaluatorVars, scannerVars,
                   binarizerVars>>

\* DesignRows with the bit columns in the order bit 0, bit 1, bit 2.
RECURSIVE DesignRowsLowFirst(_, _)
DesignRowsLowFirst(cnt, p) ==
    IF p > 7 THEN <<>>
    ELSE LET c0 == cnt[p][0]
             c1 == cnt[p][1]
             bits == <<BitAnd(Shr(p, 0), 1), BitAnd(Shr(p, 1), 1), BitAnd(Shr(p, 2), 1)>>
             r0 == IF c0 > 0 THEN <<[X |-> bits, y |-> 0, w |-> c0]>> ELSE <<>>
             r1 == IF c1 > 0 THEN <<[X |-> bits, y |-> 1, w |-> c1]>> ELSE <<>>
         IN  r0 \o r1 \o DesignRowsLowFirst(cnt, p + 1)

\* DesignRows with a row for every cell, the empty ones too.
RECURSIVE DesignRowsEmptyCellsToo(_, _)
DesignRowsEmptyCellsToo(cnt, p) ==
    IF p > 7 THEN <<>>
    ELSE LET c0 == cnt[p][0]
             c1 == cnt[p][1]
             bits == <<BitAnd(Shr(p, 2), 1), BitAnd(Shr(p, 1), 1), BitAnd(Shr(p, 0), 1)>>
             r0 == IF c0 >= 0 THEN <<[X |-> bits, y |-> 0, w |-> c0]>> ELSE <<>>
             r1 == IF c1 >= 0 THEN <<[X |-> bits, y |-> 1, w |-> c1]>> ELSE <<>>
         IN  r0 \o r1 \o DesignRowsEmptyCellsToo(cnt, p + 1)

\* The rows build_weighted_design appends for the patterns p..7.
RECURSIVE DesignRows(_, _)
DesignRows(cnt, p) ==
    IF p > 7 THEN <<>>
    ELSE LET c0 == cnt[p][0]
             c1 == cnt[p][1]
             bits == <<BitAnd(Shr(p, 2), 1), BitAnd(Shr(p, 1), 1), BitAnd(Shr(p, 0), 1)>>
             r0 == IF c0 > 0 THEN <<[X |-> bits, y |-> 0, w |-> c0]>> ELSE <<>>
             r1 == IF c1 > 0 THEN <<[X |-> bits, y |-> 1, w |-> c1]>> ELSE <<>>
         IN  r0 \o r1 \o DesignRows(cnt, p + 1)

build_weighted_design(cnt) == DesignRows(cnt, 0)

\* BuildDesign without the RuntimeError for an empty design.
BuildDesignNoRaise ==
    /\ "find_weights" \in scripts
    /\ lpc = "scan"
    /\ lpos = Len(data)
    /\ lpc' = "fit" /\ design' = build_weighted_design(counts)
    /\ UNCHANGED <<lpos, counts, total_seen, total_kept, fitVars, inputVars, collectVars, repVars, jsonVars,
                   evaluatorVars, scannerVars, binarizerVars>>

\* main() after the scan: build_weighted_design, which raises RuntimeError
\* when no pattern is present.
BuildDesign ==
    /\ "find_weights" \in scripts
    /\ lpc = "scan"
    /\ lpos = Len(data)
    /\ LET rows == build_weighted_design(counts)
       IN  IF rows = <<>>
           THEN lpc' = "error" /\ UNCHANGED design
           ELSE lpc' = "fit" /\ design' = rows
    /\ UNCHANGED <<lpos, counts, total_seen, total_kept, fitVars, inputVars, collectVars, repVars, jsonVars,
                   evaluatorVars, scannerVars, binarizerVars>>

\* The number 1.0 in the fixed-point unit of weights and scores.
One == 10 ^ 8

\* a / b rounded to the nearest integer, for a >= 0 and b > 0: the rounding
\* of a floating-point division, at the resolution of the unit.
RoundDiv(a, b) == (2 * a + b) \div (2 * b)

\* np.clip(coef, 0.0, None)
clip(c) == [i \in DOMAIN c |-> IF c[i] < 0 THEN 0 ELSE c[i]]

\* coef.sum()
SeqSum(c) == SumOver(c, DOMAIN c)

\* PostProcess with the raw coefficients divided by their sum, unclipped.
PostProcessUnclipped(c) ==
    LET s == SeqSum(clip(c))
    IN  IF s <= 0 THEN [i \in DOMAIN c |-> RoundDiv(One, Len(c))]
        ELSE [i \in DOMAIN c |-> IF c[i] < 0 THEN 0 - RoundDiv((0 - c[i]) * One, s)
                                  ELSE RoundDiv(c[i] * One, s)]

\* coef = np.clip(coef, 0.0, None); s = coef.sum(); weights = uniform if
\* s <= 0 else coef / s.  The coefficients are in any unit, the weights in
\* units of 1e-8.
PostProcess(c) ==
    LET clipped == clip(c)
        s == SeqSum(clipped)
    IN  IF s <= 0 THEN [i \in DOMAIN c |-> RoundDiv(One, Len(c))]
        ELSE [i \in DOMAIN c |-> RoundDiv(clipped[i] * One, s)]

\* train_weights.py: coef = np.clip(clf.coef_[0], 0, None);
\* weights = coef / coef.sum() if coef.sum() > 0 else uniform.
TrainWeightsPostProcess(c) ==
    LET clipped == clip(c)
    IN  IF SeqSum(clipped) > 0
        THEN [i \in DOMAIN c |-> RoundDiv(clipped[i] * One, SeqSum(clipped))]
        ELSE [i \in DOMAIN c |-> RoundDiv(One, Len(c))]

\* The classes LogisticRegression.fit finds in y_small.
Classes(rows) == {rows[i].y : i \in DOMAIN rows}

\* The coefficient vectors a fit may end with: any reals, here a few values
\* of either sign per feature.
Coefs == {<<a, b, c>> : a \in {-2, 0, 1, 3}, b \in {-2, 0, 1, 3}, c \in {-2, 0, 1, 3}}

\* fit_weights_aggregated: clf.fit(X, y, sample_weight=w), which raises
\* ValueError when y holds one class only, and otherwise ends with some
\* coefficient vector c; then the post-processing of the coefficients.
Fit(c) ==
    /\ "find_weights" \in scripts
    /\ lpc = "fit"
    /\ fit_calls' = fit_calls + 1
    /\ IF Cardinality(Classes(design)) < 2
       THEN lpc' = "fit_error" /\ UNCHANGED <<coef, weights>>
       ELSE /\ coef' = c
            /\ weights' = PostProcess(c)
            /\ lpc' = "fitted"
    /\ UNCHANGED <<lpos, counts, total_seen, total_kept, design, model_out,
                   inputVars, collectVars, repVars, jsonVars, evaluatorVars, scannerVars, binarizerVars>>

\* main() after the fit: the model is written to --out.
WriteModel ==
    /\ "find_weights" \in scripts
    /\ lpc = "fitted"
    /\ model_out' =
         [features |-> FEATURES,
          weights_sum_to_1 |-> weights,
          unique_patterns_present |->
              Cardinality({p \in Patterns : counts[p][0] + counts[p][1] # 0}),
          train_rows_seen |-> total_seen,
          train_rows_kept |-> total_kept,
          families_filter |-> families]
    /\ lpc' = "done"
    /\ UNCHANGED <<lpos, counts, total_seen, total_kept, design, fit_calls, coef,
                   weights, inputVars, collectVars, repVars, jsonVars, evaluatorVars, scannerVars, binarizerVars>>

\* --------------------------------------------------------- test/evaluate.py

W_SM == 61700000

W_CR == 29460000

W_PH == 8840000

\* Indexed from 1: SCORES_BY_PATTERN[p + 1] is the code's SCORES_BY_PATTERN[p].
SCORES_BY_PATTERN ==
    << 0,
       W_SM,
       W_CR,
       W_SM + W_CR,
       W_PH,
       W_SM + W_PH,
       W_CR + W_PH,
       W_SM + W_CR + W_PH >>

\* EvaluatorPattern with the string-minhash and program-header flags swapped.
EvaluatorPatternSwapped(r) == BitOr(BitOr(Shl(r.sm.v, 2), Shl(r.cr.v, 1)), r.ph.v)

\* pat = ((ph << 2) | (cr << 1) | sm) of a row that passed the mask.
EvaluatorPattern(r) == BitOr(BitOr(Shl(r.ph.v, 2), Shl(r.cr.v, 1)), r.sm.v)

\* m = isfinite(y) & isfinite(sm) & isfinite(cr) & isfinite(ph)
EvaluatorMask(r) ==
    isfinite(r.y) /\ isfinite(r.sm) /\ isfinite(r.cr) /\ isfinite(r.ph)

\* The label column and the pattern column of the rows that passed the mask.
LabelsOf(kept) == [i \in DOMAIN kept |-> kept[i].y.v]

PatternsOf(kept) == [i \in DOMAIN kept |-> EvaluatorPattern(kept[i])]

\* AddFamilyHists without the selection of the family's own rows.
AddFamilyHistsAllRows(byfam, kept) ==
    LET ufam == {kept[i].fam : i \in DOMAIN kept}
    IN  [f \in DOMAIN byfam \cup ufam |->
            LET arr == IF f \in DOMAIN byfam THEN byfam[f] ELSE ZeroCounts
            IN  IF f \in ufam THEN AddHist(arr, LabelsOf(kept), PatternsOf(kept)) ELSE arr]

\* The "family counts" block: every family of the batch gets the bincount
\* of its own rows added to its own histogram, created on first use.
AddFamilyHists(byfam, kept) ==
    LET ufam == {kept[i].fam : i \in DOMAIN kept}
    IN  [f \in DOMAIN byfam \cup ufam |->
            LET sel_f == [i \in DOMAIN kept |-> kept[i].fam = f]
                y_f   == Masked(LabelsOf(kept), sel_f)
                pat_f == Masked(PatternsOf(kept), sel_f)
                arr == IF f \in DOMAIN byfam THEN byfam[f] ELSE ZeroCounts
            IN  IF f \in ufam THEN AddHist(arr, y_f, pat_f) ELSE arr]

\* filt = (ds.field(PARTITION_COL) == family) if family else None
InScannedFamily(r) == family = "" \/ r.fam = family

\* The rows the scanner hands over, in batches.
Scanned == SelectSeq(data, InScannedFamily)

\* One iteration of "for b in scanner.to_batches()" on the next n rows.
EvaluatorBatch(n) ==
    /\ "evaluate" \in scripts
    /\ epc = "scan"
    /\ epos + n <= Len(Scanned)
    /\ LET b    == SubSeq(Scanned, epos + 1, epos + n)
           kept == SelectSeq(b, EvaluatorMask)
           IsPos(r) == r.y.v = 1
           IsNeg(r) == r.y.v = 0
       IN  /\ epos' = epos + n
           /\ IF kept = <<>>
              THEN UNCHANGED <<counts_global, counts_by_family, n_pos, n_neg>>
              ELSE /\ counts_global' =
                        AddHist(counts_global, LabelsOf(kept), PatternsOf(kept))
                   /\ counts_by_family' =
                        IF by_family THEN AddFamilyHists(counts_by_family, kept)
                        ELSE counts_by_family
                   /\ n_pos' = n_pos + Len(SelectSeq(kept, IsPos))
                   /\ n_neg' = n_neg + Len(SelectSeq(kept, IsNeg))
    /\ UNCHANGED <<epc, rows_global, best_idx, rows_fam_all, inputVars, collectVars, repVars, jsonVars, learnerVars, scannerVars,
                   binarizerVars>>

\* EvalRow with mask = (s > thr).
EvalRowStrict(cnt, thr) ==
    LET pos_counts == [p \in Patterns |-> cnt[p][1]]
        neg_counts == [p \in Patterns |-> cnt[p][0]]
        total_pos == SumOver(pos_counts, Patterns)
        total_neg == SumOver(neg_counts, Patterns)
        mask == {p \in Patterns : SCORES_BY_PATTERN[p + 1] > thr}
        tp == SumOver(pos_counts, mask)
        fp == SumOver(neg_counts, mask)
        fn == total_pos - tp
        tn == total_neg - fp
        tpr == Ratio(tp, total_pos)
        fpr == Ratio(fp, total_neg)
    IN  [threshold |-> thr, tp |-> tp, fp |-> fp, tn |-> tn, fn |-> fn,
         tpr |-> tpr, fpr |-> fpr,
         precision |-> Ratio(tp, tp + fp),
         specificity |-> Ratio(tn, total_neg),
         accuracy |-> Ratio(tp + tn, total_pos + total_neg),
         f1 |-> Ratio(2 * tp, 2 * tp + fp + fn),
         youdenJ |-> RatSub(tpr, fpr),
         sample_pos |-> total_pos, sample_neg |-> total_neg]

\* The row of EvalRow with the mask "s <= thr".
EvalRowBelow(cnt, thr) ==
    LET pos_counts == [p \in Patterns |-> cnt[p][1]]
        neg_counts == [p \in Patterns |-> cnt[p][0]]
        total_pos == SumOver(pos_counts, Patterns)
        total_neg == SumOver(neg_counts, Patterns)
        mask == {p \in Patterns : SCORES_BY_PATTERN[p + 1] <= thr}
        tp == SumOver(pos_counts, mask)
        fp == SumOver(neg_counts, mask)
        fn == total_pos - tp
        tn == total_neg - fp
        tpr == Ratio(tp, total_pos)
        fpr == Ratio(fp, total_neg)
    IN  [threshold |-> thr, tp |-> tp, fp |-> fp, tn |-> tn, fn |-> fn,
         tpr |-> tpr, fpr |-> fpr,
         precision |-> Ratio(tp, tp + fp),
         specificity |-> Ratio(tn, total_neg),
         accuracy |-> Ratio(tp + tn, total_pos + total_neg),
         f1 |-> Ratio(2 * tp, 2 * tp + fp + fn),
         youdenJ |-> RatSub(tpr, fpr),
         sample_pos |-> total_pos, sample_neg |-> total_neg]

\* The row eval_thresholds_from_counts appends for one threshold.
EvalRow(cnt, thr) ==
    LET pos_counts == [p \in Patterns |-> cnt[p][1]]
        neg_counts == [p \in Patterns |-> cnt[p][0]]
        total_pos == SumOver(pos_counts, Patterns)
        total_neg == SumOver(neg_counts, Patterns)
        mask == {p \in Patterns : SCORES_BY_PATTERN[p + 1] >= thr}
        tp == SumOver(pos_counts, mask)
        fp == SumOver(neg_counts, mask)
        fn == total_pos - tp
        tn == total_neg - fp
        tpr == Ratio(tp, total_pos)
        fpr == Ratio(fp, total_neg)
    IN  [threshold |-> thr, tp |-> tp, fp |-> fp, tn |-> tn, fn |-> fn,
         tpr |-> tpr, fpr |-> fpr,
         precision |-> Ratio(tp, tp + fp),
         specificity |-> Ratio(tn, total_neg),
         accuracy |-> Ratio(tp + tn, total_pos + total_neg),
         f1 |-> Ratio(2 * tp, 2 * tp + fp + fn),
         youdenJ |-> RatSub(tpr, fpr),
         sample_pos |-> total_pos, sample_neg |-> total_neg]

eval_thresholds_from_counts(cnt, thresholds) ==
    [i \in DOMAIN thresholds |-> EvalRow(cnt, thresholds[i])]

auto_thresholds == sorted(Range(SCORES_BY_PATTERN))

\* np.argmax over the youdenJ column: the first index of a maximal value
\* (from 1 here), and the code's -1 for an empty list.
ArgmaxJ(rows) ==
    IF rows = <<>> THEN -1
    ELSE CHOOSE i \in DOMAIN rows :
            /\ \A k \in DOMAIN rows : ~RatLess(rows[i].youdenJ, rows[k].youdenJ)
            /\ \A k \in 1..(i - 1) : RatLess(rows[k].youdenJ, rows[i].youdenJ)

\* EvalMain with a histogram that the evaluation empties as it reads it.
EvalMainConsuming ==
    /\ "evaluate" \in scripts
    /\ epc = "scan"
    /\ epos = Len(Scanned)
    /\ LET thrs == IF threshold_arg # <<>>
                   THEN sorted(Range(auto_thresholds) \cup Range(threshold_arg))
                   ELSE auto_thresholds
           rows == eval_thresholds_from_counts(counts_global, thrs)
       IN  /\ rows_global' = rows
           /\ best_idx' = ArgmaxJ(rows)
           /\ rows_fam_all' =
                IF by_family
                THEN [f \in DOMAIN counts_by_family |->
                        eval_thresholds_from_counts(counts_by_family[f], thrs)]
                ELSE rows_fam_all
    /\ epc' = "done"
    /\ counts_global' = ZeroCounts
    /\ UNCHANGED <<epos, counts_by_family, n_pos, n_neg,
                   inputVars, collectVars, repVars, jsonVars, learnerVars, scannerVars, binarizerVars>>

\* main() after the scan: the thresholds, the metrics rows, the best row.
EvalMain ==
    /\ "evaluate" \in scripts
    /\ epc = "scan"
    /\ epos = Len(Scanned)
    /\ LET thrs == IF threshold_arg # <<>>
                   THEN sorted(Range(auto_thresholds) \cup Range(threshold_arg))
                   ELSE auto_thresholds
           rows == eval_thresholds_from_counts(counts_global, thrs)
       IN  /\ rows_global' = rows
           /\ best_idx' = ArgmaxJ(rows)
           /\ rows_fam_all' =
                IF by_family
                THEN [f \in DOMAIN counts_by_family |->
                        eval_thresholds_from_counts(counts_by_family[f], thrs)]
                ELSE rows_fam_all
    /\ epc' = "done"
    /\ UNCHANGED <<epos, counts_global, counts_by_family, n_pos, n_neg,
                   inputVars, collectVars, repVars, jsonVars, learnerVars, scannerVars, binarizerVars>>

\* -------------------------------- train/final_threshold/find_threshold.py

\* The per-detector thresholds, in units of 1e-9.
TAU_SM == 146484375

TAU_CR == 398883939

TAU_PH == 829119205

\* The weights of find_threshold.py, in units of 1e-8 like the scores.
FT_W_SM == 61700000

FT_W_PH == 8840000

FT_W_CR == 29460000

\* astype(np.float32) of a score in units of 1e-8: a float32 keeps 24
\* significant bits, so in [0.5, 1) it is a multiple of 2^-24 (6 units), in
\* [0.25, 0.5) of 2^-25 (3 units), in [1, 2) of 2^-23 (12 units); below 0.25
\* the spacing is finer than the unit.  Rounding is to the nearest multiple,
\* counted from the start of the value's binade.
F32(v) ==
    LET one  == FT_W_SM + FT_W_CR + FT_W_PH
        base == IF v >= one THEN one
                ELSE IF 2 * v >= one THEN one \div 2
                ELSE IF 4 * v >= one THEN one \div 4 ELSE 0
        u    == IF v >= one THEN 12
                ELSE IF 2 * v >= one THEN 6
                ELSE IF 4 * v >= one THEN 3 ELSE 1
    IN  base + ((2 * (v - base) + u) \div (2 * u)) * u

\* m = isfinite(sm) & isfinite(cr) & isfinite(ph) & isfinite(y)
ScannerMask(r) ==
    isfinite(r.rep_sm) /\ isfinite(r.rep_cr) /\ isfinite(r.rep_ph) /\ isfinite(r.y)

\* (x >= tau).astype(np.int8) on one cell.
Flag(c, tau) == IF Ge(c, tau) THEN 1 ELSE 0

\* s = (W_SM * b_sm + W_CR * b_cr + W_PH * b_ph).astype(np.float32) on one row.
WeightedScore(r) ==
    LET b_sm == Flag(r.rep_sm, TAU_SM)
        b_cr == Flag(r.rep_cr, TAU_CR)
        b_ph == Flag(r.rep_ph, TAU_PH)
    IN  F32(FT_W_SM * b_sm + FT_W_CR * b_cr + FT_W_PH * b_ph)

\* The loop of Subsample with "keep = neg <= pos * neg_pos_ratio".
RECURSIVE SubsampleLoose(_, _, _)
SubsampleLoose(acc, s, y) ==
    IF s = <<>> THEN acc
    ELSE LET si == Head(s)
             yi == Head(y)
             keep == acc.neg * neg_pos_ratio.den <= acc.pos * neg_pos_ratio.num
             nxt == IF yi = 1
                    THEN [xs |-> Append(acc.xs, si), ys |-> Append(acc.ys, 1),
                          pos |-> acc.pos + 1, neg |-> acc.neg]
                    ELSE IF keep
                    THEN [xs |-> Append(acc.xs, si), ys |-> Append(acc.ys, 0),
                          pos |-> acc.pos, neg |-> acc.neg + 1]
                    ELSE acc
         IN  SubsampleLoose(nxt, Tail(s), Tail(y))

\* "for si, yi in zip(s, y)" under neg_pos_ratio > 0, on the accumulator
\* acc = [xs, ys, pos, neg].
RECURSIVE Subsample(_, _, _)
Subsample(acc, s, y) ==
    IF s = <<>> THEN acc
    ELSE LET si == Head(s)
             yi == Head(y)
             keep == acc.neg * neg_pos_ratio.den < acc.pos * neg_pos_ratio.num
             nxt == IF yi = 1
                    THEN [xs |-> Append(acc.xs, si), ys |-> Append(acc.ys, 1),
                          pos |-> acc.pos + 1, neg |-> acc.neg]
                    ELSE IF keep
                    THEN [xs |-> Append(acc.xs, si), ys |-> Append(acc.ys, 0),
                          pos |-> acc.pos, neg |-> acc.neg + 1]
                    ELSE acc
         IN  Subsample(nxt, Tail(s), Tail(y))

\* One iteration of "for b in scanner.to_batches()" on the next n rows.
ScanBatch(n) ==
    /\ "find_threshold" \in scripts
    /\ spc = "scan"
    /\ spos + n <= Len(Scanned)
    /\ LET b    == SubSeq(Scanned, spos + 1, spos + n)
           kept == SelectSeq(b, ScannerMask)
           s    == [i \in DOMAIN kept |-> WeightedScore(kept[i])]
           y    == [i \in DOMAIN kept |-> kept[i].y.v]
           acc  == IF neg_pos_ratio.num > 0
                   THEN Subsample([xs |-> xs, ys |-> ys, pos |-> pos, neg |-> neg], s, y)
                   ELSE [xs |-> xs \o s, ys |-> ys \o y, pos |-> pos, neg |-> neg]
       IN  /\ spos' = spos + n
           /\ IF kept = <<>>
              THEN UNCHANGED <<xs, ys, pos, neg, spc>>
              ELSE /\ xs' = acc.xs /\ ys' = acc.ys /\ pos' = acc.pos /\ neg' = acc.neg
                   /\ spc' = IF max_rows # 0 /\ Len(acc.ys) >= max_rows
                             THEN "done" ELSE "scan"
    /\ UNCHANGED <<pickVars, inputVars, collectVars, repVars, jsonVars, learnerVars, evaluatorVars, binarizerVars>>

\* The scanner has no batch left: scan_weighted_scores returns.
ScanReturn ==
    /\ "find_threshold" \in scripts
    /\ spc = "scan"
    /\ spos = Len(Scanned)
    /\ spc' = "done"
    /\ UNCHANGED <<spos, xs, ys, pos, neg, pickVars, inputVars, collectVars, repVars, jsonVars, learnerVars,
                   evaluatorVars, binarizerVars>>

\* metrics_at_threshold: x is a float32 array, so numpy compares it with
\* the threshold as a float32.
metrics_at_threshold(y, x, thr) ==
    LET pred == [i \in DOMAIN x |-> x[i] >= F32(thr)]
        tp == Cardinality({i \in DOMAIN x : pred[i] /\ y[i] = 1})
        fp == Cardinality({i \in DOMAIN x : pred[i] /\ y[i] = 0})
        tn == Cardinality({i \in DOMAIN x : ~pred[i] /\ y[i] = 0})
        fn == Cardinality({i \in DOMAIN x : ~pred[i] /\ y[i] = 1})
    IN  [threshold |-> thr, tp |-> tp, fp |-> fp, tn |-> tn, fn |-> fn,
         tpr |-> Ratio(tp, tp + fn), fpr |-> Ratio(fp, tn + fp),
         precision |-> Ratio(tp, tp + fp)]

\* The recall targets 0.95 and 0.99, in percent.
RECALL_TARGETS == <<95, 99>>

\* The members of a finite set of integers, descending.
Descending(S) ==
    LET asc == sorted(S)
    IN  [k \in DOMAIN asc |-> asc[Len(asc) + 1 - k]]

\* _binary_clf_curve counting the records whose score is above the
\* threshold and not those that reach it.
BinaryClfCurveAbove(y, x) ==
    LET thr == Descending(Range(x))
    IN  [k \in DOMAIN thr |->
            [idx |-> k, thr |-> thr[k],
             tps |-> Cardinality({i \in DOMAIN x : x[i] > thr[k] /\ y[i] = 1}),
             fps |-> Cardinality({i \in DOMAIN x : x[i] > thr[k] /\ y[i] # 1})]]

\* sklearn's _binary_clf_curve: one point per distinct score, from the
\* highest down, with the numbers of positives (tps) and negatives (fps)
\* whose score reaches it.
BinaryClfCurve(y, x) ==
    LET thr == Descending(Range(x))
    IN  [k \in DOMAIN thr |->
            [idx |-> k, thr |-> thr[k],
             tps |-> Cardinality({i \in DOMAIN x : x[i] >= thr[k] /\ y[i] = 1}),
             fps |-> Cardinality({i \in DOMAIN x : x[i] >= thr[k] /\ y[i] # 1})]]

\* roc_curve(y, x) without its first point (fpr 0, tpr 0, threshold inf),
\* which "m = ~np.isinf(thr)" takes out again.  drop_intermediate, the
\* default, keeps of more than two points the first, the last and those
\* where the second difference of fps or of tps is not 0.
RocCurve(y, x) ==
    LET c == BinaryClfCurve(y, x)
        n == Len(c)
        Corner(k) == \/ c[k - 1].fps - 2 * c[k].fps + c[k + 1].fps # 0
                     \/ c[k - 1].tps - 2 * c[k].tps + c[k + 1].tps # 0
        Kept(pt) == pt.idx = 1 \/ pt.idx = n \/ Corner(pt.idx)
    IN  IF n > 2 THEN SelectSeq(c, Kept) ELSE c

\* The operating point of a recall target that no threshold reaches.
NotReachable(target) ==
    [criterion |-> <<"recall>=", target>>, threshold |-> NaN,
     tp |-> None, fp |-> None, tn |-> None, fn |-> None,
     tpr |-> NaN, fpr |-> NaN, precision |-> NaN]

\* j_idx = int(np.argmax(tpr - fpr)): the first point of maximal J; when a
\* class is absent roc_curve gives NaN rates, J is NaN throughout and argmax
\* returns the first index.
YoudenIndex(c) ==
    LET P == c[Len(c)].tps
        N == c[Len(c)].fps
        J(k) == c[k].tps * N - c[k].fps * P
    IN  IF P = 0 \/ N = 0 THEN 1
        ELSE CHOOSE k \in DOMAIN c :
                /\ \A m \in DOMAIN c : J(m) <= J(k)
                /\ \A m \in 1..(k - 1) : J(m) < J(k)

\* idx = np.where(tpr >= target)[0]; sub = idx[np.argmin(fpr[idx])]: the
\* first point of least fpr among those of tpr >= target, 0 when there is
\* none (a NaN tpr reaches no target).
RecallIndex(c, target) ==
    LET P == c[Len(c)].tps
        idx == {k \in DOMAIN c : P > 0 /\ c[k].tps * 100 >= target * P}
    IN  IF idx = {} THEN 0
        ELSE CHOOSE k \in idx :
                /\ \A m \in idx : c[k].fps <= c[m].fps
                /\ \A m \in idx : m < k => c[m].fps > c[k].fps

\* pick_thresholds
pick_thresholds(y, x) ==
    LET c == RocCurve(y, x)
        j_idx == YoudenIndex(c)
    IN  [roc |-> c,
         best_j |-> metrics_at_threshold(y, x, c[j_idx].thr) @@ [criterion |-> "youdenJ"],
         rec_thrs |->
            [t \in DOMAIN RECALL_TARGETS |->
                LET sub == RecallIndex(c, RECALL_TARGETS[t])
                IN  IF sub = 0 THEN NotReachable(RECALL_TARGETS[t])
                    ELSE metrics_at_threshold(y, x, c[sub].thr)
                            @@ [criterion |-> <<"recall>=", RECALL_TARGETS[t]>>]]]

\* main() after the scan: pick_thresholds on the sample; roc_curve refuses an
\* empty sample with ValueError.
PickThresholds ==
    /\ "find_threshold" \in scripts
    /\ spc = "done"
    /\ IF ys = <<>>
       THEN spc' = "pick_error" /\ UNCHANGED pickVars
       ELSE LET r == pick_thresholds(ys, xs)
            IN  /\ roc' = r.roc
                /\ best_j' = r.best_j
                /\ rec_thrs' = r.rec_thrs
                /\ spc' = "picked"
    /\ UNCHANGED <<spos, xs, ys, pos, neg, inputVars, collectVars, repVars, jsonVars, learnerVars, evaluatorVars,
                   binarizerVars>>

\* ----------------------------------------------- train/weight/preprocess.py

TAU ==
    [STRING_MINHASH |-> 146484375, CODE_REGION_LIST |-> 398883939,
     PROGRAM_HEADER_VECTOR |-> 829119205]

USE_FEATS == <<"STRING_MINHASH", "CODE_REGION_LIST", "PROGRAM_HEADER_VECTOR">>

\* The raw column of each used detector.
RAW_COLS ==
    [STRING_MINHASH |-> "rep_sm", CODE_REGION_LIST |-> "rep_cr",
     PROGRAM_HEADER_VECTOR |-> "rep_ph"]

\* mask_valid = np.all(~np.isnan(M), axis=1) & ~np.isnan(y), on one row.
mask_valid(r) ==
    /\ \A i \in DOMAIN USE_FEATS : ~isnan(r[RAW_COLS[USE_FEATS[i]]])
    /\ ~isnan(r.y)

\* B = (M >= thr_vec).astype(np.int8) and the output columns, on one row.
BinRow(r) ==
    LET B == [i \in DOMAIN USE_FEATS |->
                Flag(r[RAW_COLS[USE_FEATS[i]]], TAU[USE_FEATS[i]])]
    IN  [fam |-> r.fam, y |-> r.y,
         sm |-> Num(B[1]), cr |-> Num(B[2]), ph |-> Num(B[3])]

\* ds.write_dataset(table, ..., existing_data_behavior="overwrite_or_ignore")
\* with the default basename template: each partition the table has rows of
\* gets them as its part-0.parquet, in the place of the file of that name
\* an earlier write has left; the other partitions keep theirs.
write_dataset(files, t) ==
    LET InTable(f) == \E i \in DOMAIN t : t[i].fam = f
        parts == {f \in Families : InTable(f)}
    IN  [f \in DOMAIN files \cup parts |->
            IF f \in parts
            THEN LET OfPart(r) == r.fam = f IN SelectSeq(t, OfPart)
            ELSE files[f]]

\* One iteration of "for b in scanner.to_batches()" on the next n rows.
BinarizeBatch(n) ==
    /\ "weight_preprocess" \in scripts
    /\ wpc = "scan"
    /\ wpos + n <= Len(data)
    /\ LET b     == SubSeq(data, wpos + 1, wpos + n)
           valid == SelectSeq(b, mask_valid)
           t     == [i \in DOMAIN valid |-> BinRow(valid[i])]
       IN  /\ wpos' = wpos + n
           /\ total_in' = total_in + Len(b)
           /\ IF valid = <<>>
              THEN UNCHANGED <<total_out, table, out_files>>
              ELSE /\ table' = t
                   /\ total_out' = total_out + Len(t)
                   /\ out_files' = write_dataset(out_files, t)
    /\ UNCHANGED <<wpc, inputVars, collectVars, repVars, jsonVars, learnerVars, evaluatorVars, scannerVars>>

\* The scanner has no batch left: the meta file is written with rows_read
\* and rows_written.
BinarizeDone ==
    /\ "weight_preprocess" \in scripts
    /\ wpc = "scan"
    /\ wpos = Len(data)
    /\ wpc' = "done"
    /\ UNCHANGED <<wpos, total_in, total_out, table, out_files,
                   inputVars, collectVars, repVars, jsonVars, learnerVars, evaluatorVars, scannerVars>>

\* ------------------------------------------------------- test/preprocess.py

TEST_TAU ==
    [STRING_MINHASH |-> 146484375, CODE_REGION_LIST |-> 398883939,
     PROGRAM_HEADER_VECTOR |-> 829119205]

TEST_W ==
    [STRING_MINHASH |-> 61700000, CODE_REGION_LIST |-> 29460000,
     PROGRAM_HEADER_VECTOR |-> 8840000]

\* A file name is "<family>___<rest>"; extract_family returns the part before
\* the separator, "" when there is none.
extract_family(name) == name.family

to_float(x) == IF x = None \/ isnan(x) THEN NaN ELSE x

to_int01(x) == IF x = 1 THEN 1 ELSE 0

\* 0 if math.isnan(v) else int(v >= tau)
TestFlag(v, tau) == IF isnan(v) THEN 0 ELSE Flag(v, tau)

\* np.float32(v) if not math.isnan(v) else None; a null cell is read back as
\* NaN.  The raw values are float32 values, which the cast keeps.
RepCell(v) == IF isnan(v) THEN NaN ELSE v

\* The row that the body of "for d in data" appends for one record d.
TestRow(d) ==
    LET sm == to_float(d.STRING_MINHASH)
        cr == to_float(d.CODE_REGION_LIST)
        ph == to_float(d.PROGRAM_HEADER_VECTOR)
        bin_blk == d.binary
        b_sm == IF bin_blk # <<>> THEN to_int01(bin_blk[1])
                ELSE TestFlag(sm, TEST_TAU.STRING_MINHASH)
        b_cr == IF bin_blk # <<>> THEN to_int01(bin_blk[2])
                ELSE TestFlag(cr, TEST_TAU.CODE_REGION_LIST)
        b_ph == IF bin_blk # <<>> THEN to_int01(bin_blk[3])
                ELSE TestFlag(ph, TEST_TAU.PROGRAM_HEADER_VECTOR)
        s_weighted == TEST_W.STRING_MINHASH * b_sm + TEST_W.CODE_REGION_LIST * b_cr
                        + TEST_W.PROGRAM_HEADER_VECTOR * b_ph
        src_family == extract_family(d.secondFileName)
        dst_family == extract_family(d.fileName)
        label_same == IF src_family # "" /\ dst_family # "" /\ src_family = dst_family
                      THEN 1 ELSE 0
    IN  [fam |-> src_family, dst_family |-> dst_family, y |-> Num(label_same),
         rep_sm |-> RepCell(sm), rep_cr |-> RepCell(cr), rep_ph |-> RepCell(ph),
         sm |-> Num(b_sm), cr |-> Num(b_cr), ph |-> Num(b_ph),
         score_weighted |-> F32(s_weighted)]

\* ------------------------------------- test/eval_all.py, eval_by_family.py

\* A string is the sequence of its characters.  str.lower() on one character
\* of the names used here.
LowerChar(ch) == IF ch = "B" THEN "b" ELSE IF ch = "U" THEN "u" ELSE ch

lower(s) == [i \in DOMAIN s |-> LowerChar(s[i])]

\* str.strip(): without the blanks at both ends.
RECURSIVE strip(_)
strip(s) ==
    IF s = <<>> THEN s
    ELSE IF Head(s) = " " THEN strip(Tail(s))
    ELSE IF s[Len(s)] = " " THEN strip(SubSeq(s, 1, Len(s) - 1))
    ELSE s

\* str.find(sub): the lowest index, from 0, at which sub starts in s, or -1.
find(s, sub) ==
    LET at == {i \in 0..(Len(s) - Len(sub)) : SubSeq(s, i + 1, i + Len(sub)) = sub}
    IN  IF at = {} THEN -1 ELSE CHOOSE i \in at : \A k \in at : i <= k

\* The name that a record lacks, "" after "name or ''".
NoName == <<>>

\* family_from_name: the prefix before '___', stripped and in lower case,
\* and "" when there is no such prefix.
family_from_name(name) ==
    LET s == lower(strip(name))
        i == find(s, <<"_", "_", "_">>)
    IN  IF i > 0 THEN SubSeq(s, 1, i) ELSE NoName

\* The score of a record that is a string float() refuses.
NotNumeric == [kind |-> "str", v |-> 0]

\* float(s) succeeds: s is a number (NaN and the infinities included, which
\* json.load accepts); None and a non-numeric string raise.
Floatable(c) == c.kind \in {"num", "nan", "pinf", "ninf"}

\* The counters before the first record.
NoCounts == [tp |-> 0, fp |-> 0, tn |-> 0, fn |-> 0, rows |-> 0]

\* CountRecord without "rows += 1" for a record counted as fn.
CountRecordNoRows(c, s, y, threshold) ==
    LET pred == IF s.v >= threshold THEN 1 ELSE 0
    IN  IF pred = 1 /\ y = 1 THEN [c EXCEPT !.tp = @ + 1, !.rows = @ + 1]
        ELSE IF pred = 1 /\ y = 0 THEN [c EXCEPT !.fp = @ + 1, !.rows = @ + 1]
        ELSE IF pred = 0 /\ y = 0 THEN [c EXCEPT !.tn = @ + 1, !.rows = @ + 1]
        ELSE [c EXCEPT !.fn = @ + 1]

\* The four-way count of one scored record, and rows += 1.
CountRecord(c, s, y, threshold) ==
    LET pred == IF s.v >= threshold THEN 1 ELSE 0
    IN  IF pred = 1 /\ y = 1 THEN [c EXCEPT !.tp = @ + 1, !.rows = @ + 1]
        ELSE IF pred = 1 /\ y = 0 THEN [c EXCEPT !.fp = @ + 1, !.rows = @ + 1]
        ELSE IF pred = 0 /\ y = 0 THEN [c EXCEPT !.tn = @ + 1, !.rows = @ + 1]
        ELSE [c EXCEPT !.fn = @ + 1, !.rows = @ + 1]

\* "for rec in data" from the record at the head of recs on: a record whose
\* score float() refuses or that is not finite is passed over; a record
\* that is not an object has no .get, the AttributeError leaves the loop
\* and the "except Exception: continue" of the file takes it.
RECURSIVE CountRecords(_, _, _, _)
CountRecords(recs, src_family, threshold, c) ==
    IF recs = <<>> THEN c
    ELSE LET rec == Head(recs)
         IN  IF rec.shape # "object" THEN c
             ELSE LET dst_family == family_from_name(rec.fileName)
                      y == IF dst_family # NoName /\ dst_family = src_family
                           THEN 1 ELSE 0
                      s == rec.score_weighted
                  IN  IF ~Floatable(s) \/ ~isfinite(s)
                      THEN CountRecords(Tail(recs), src_family, threshold, c)
                      ELSE CountRecords(Tail(recs), src_family, threshold,
                                        CountRecord(c, s, y, threshold))

\* The family of the anchor of a file, data[0]'s secondFileName; NoName
\* stands for the file being passed over as well, which is what happens
\* when data is no list or an empty one, and when data[0] is no object.
AnchorFamily(file) ==
    IF file.shape # "list" \/ file.data = <<>> THEN NoName
    ELSE IF file.data[1].shape # "object" THEN NoName
    ELSE family_from_name(file.data[1].secondFileName)

DEFAULT_THR == 61700000

\* metrics_from_counts of eval_all.py and of eval_by_family.py, which are the
\* same.
metrics_from_counts(tp, fp, tn, fn) ==
    LET jpos == tp + fn
        jneg == tn + fp
        tpr == Ratio(tp, jpos)
        fpr == Ratio(fp, jneg)
    IN  [tpr |-> tpr, fpr |-> fpr,
         precision |-> Ratio(tp, tp + fp),
         specificity |-> Ratio(tn, jneg),
         accuracy |-> Ratio(tp + tn, jpos + jneg),
         f1 |-> Ratio(2 * tp, 2 * tp + fp + fn),
         youdenJ |-> RatSub(tpr, fpr),
         sample_pos |-> jpos, sample_neg |-> jneg]

\* eval_all.py: one iteration of "for jf in iterator".
ScanJsonFile ==
    /\ "eval_all" \in scripts
    /\ jpc = "scan"
    /\ jfile < Len(json_dir)
    /\ LET file == json_dir[jfile + 1]
           src_family == AnchorFamily(file)
       IN  overall' = IF src_family = NoName THEN overall
                      ELSE CountRecords(file.data, src_family, DEFAULT_THR, overall)
    /\ jfile' = jfile + 1
    /\ UNCHANGED <<jpc, overall_row, json_dir, json_families, fpc, ffile,
                   fam_counts, fam_rows, inputVars, collectVars, repVars, learnerVars, evaluatorVars,
                   scannerVars, binarizerVars>>

\* eval_all.py: after the loop, the row returned.
EvalOverallReturn ==
    /\ "eval_all" \in scripts
    /\ jpc = "scan"
    /\ jfile = Len(json_dir)
    /\ overall_row' =
          [scope |-> "ALL_JSONS", threshold |-> DEFAULT_THR,
           tp |-> overall.tp, fp |-> overall.fp, tn |-> overall.tn,
           fn |-> overall.fn, rows |-> overall.rows]
          @@ metrics_from_counts(overall.tp, overall.fp, overall.tn, overall.fn)
    /\ jpc' = "done"
    /\ UNCHANGED <<jfile, overall, json_dir, json_families, fpc, ffile,
                   fam_counts, fam_rows, inputVars, collectVars, repVars, learnerVars, evaluatorVars,
                   scannerVars, binarizerVars>>

\* f.strip().lower() on one entry of the families list.
NormFamily(f) == lower(strip(f))

\* fam_set
FamSet(fams) == {NormFamily(fams[i]) : i \in DOMAIN fams} \ {NoName}

\* eval_by_family.py: one iteration of "for jf in it".
ScanJsonFileByFamily ==
    /\ "eval_by_family" \in scripts
    /\ fpc = "scan"
    /\ ffile < Len(json_dir)
    /\ LET file == json_dir[ffile + 1]
           src_family == AnchorFamily(file)
       IN  fam_counts' =
              IF file.shape # "list" \/ file.data = <<>> THEN fam_counts
              ELSE IF file.data[1].shape # "object" THEN fam_counts
              ELSE IF src_family \notin FamSet(json_families) THEN fam_counts
              ELSE [fam_counts EXCEPT ![src_family] =
                        CountRecords(file.data, src_family, DEFAULT_THR, @)]
    /\ ffile' = ffile + 1
    /\ UNCHANGED <<fpc, fam_rows, json_dir, json_families, jpc, jfile, overall,
                   overall_row, inputVars, collectVars, repVars, learnerVars, evaluatorVars,
                   scannerVars, binarizerVars>>

\* The sum of the counters c and d.
AddCounts(c, d) ==
    [tp |-> c.tp + d.tp, fp |-> c.fp + d.fp, tn |-> c.tn + d.tn,
     fn |-> c.fn + d.fn, rows |-> c.rows + d.rows]

\* "for fam in families": the rows of the first k entries and their total.
RECURSIVE FamilyRows(_, _, _)
FamilyRows(fams, cnt, k) ==
    IF k = 0 THEN [rows |-> <<>>, tot |-> NoCounts]
    ELSE LET before == FamilyRows(fams, cnt, k - 1)
             f == NormFamily(fams[k])
             c == IF f \in DOMAIN cnt THEN cnt[f] ELSE NoCounts
             row == [src_family |-> f, threshold |-> DEFAULT_THR,
                     tp |-> c.tp, fp |-> c.fp, tn |-> c.tn, fn |-> c.fn,
                     rows |-> c.rows]
                    @@ metrics_from_counts(c.tp, c.fp, c.tn, c.fn)
         IN  IF f = NoName THEN before
             ELSE [rows |-> Append(before.rows, row),
                   tot |-> AddCounts(before.tot, c)]

\* eval_by_family.py: after the loop, one row per family and the TOTAL row.
EvalByFamilyReturn ==
    /\ "eval_by_family" \in scripts
    /\ fpc = "scan"
    /\ ffile = Len(json_dir)
    /\ LET r == FamilyRows(json_families, fam_counts, Len(json_families))
           tot == r.tot
       IN  fam_rows' = Append(r.rows,
              [src_family |-> <<"T", "O", "T", "A", "L">>, threshold |-> DEFAULT_THR,
               tp |-> tot.tp, fp |-> tot.fp, tn |-> tot.tn, fn |-> tot.fn,
               rows |-> tot.rows]
              @@ metrics_from_counts(tot.tp, tot.fp, tot.tn, tot.fn))
    /\ fpc' = "done"
    /\ UNCHANGED <<ffile, fam_counts, json_dir, json_families, jpc, jfile,
                   overall, overall_row, inputVars, collectVars, repVars, learnerVars, evaluatorVars,
                   scannerVars, binarizerVars>>

\* ----------------------------------------- train/rep_threshold/preprocess.py

\* --chunk-rows when it is not given.
CHUNK_ROWS == 500000

\* The code points of the characters of the names used here.
CharCode ==
    (" " :> 32) @@ ("1" :> 49) @@ ("2" :> 50) @@ ("B" :> 66) @@ ("U" :> 85)
        @@ ("_" :> 95) @@ ("b" :> 98) @@ ("u" :> 117)

\* Python's a < b on two strings: by the first character that differs, a
\* proper prefix being the smaller.
RECURSIVE StrLess(_, _)
StrLess(a, b) ==
    IF b = <<>> THEN FALSE
    ELSE IF a = <<>> THEN TRUE
    ELSE IF Head(a) = Head(b) THEN StrLess(Tail(a), Tail(b))
    ELSE CharCode[Head(a)] < CharCode[Head(b)]

\* family_from_name of this script: name.split("___", 1)[0].lower(), the
\* whole name when it has no '___'.
split_family_from_name(name) ==
    LET i == find(name, <<"_", "_", "_">>)
    IN  lower(IF i >= 0 THEN SubSeq(name, 1, i) ELSE name)

\* _to_f32: None for None and for what float() refuses.
to_f32(v) == IF Floatable(v) THEN v ELSE None

\* to_row, without the check that drops the pair reported from its greater
\* name.
to_row_both_directions(obj) ==
    LET tgt == obj.fileName
        src == obj.secondFileName
        det == obj.comparisonDetails
    IN  IF src = NoName \/ tgt = NoName THEN None
        ELSE IF src = tgt THEN None
        ELSE [src_file |-> src, tgt_file |-> tgt,
              src_family |-> split_family_from_name(src),
              tgt_family |-> split_family_from_name(tgt),
              rep_string_minhash |-> to_f32(det.STRING_MINHASH),
              rep_code_regions |-> to_f32(det.CODE_REGION_LIST),
              rep_program_header |-> to_f32(det.PROGRAM_HEADER_VECTOR),
              rep_elf_header |-> to_f32(det.ELF_HEADER_VECTOR),
              rep_section_sizes |-> to_f32(det.SECTION_SIZE_VECTOR),
              label_same_family |->
                  IF split_family_from_name(src) = split_family_from_name(tgt)
                  THEN 1 ELSE 0]

\* to_row: None for the object that is dropped.  A name that is absent
\* (None) and the empty name are both NoName here, "not src" being true of
\* both; an absent comparisonDetails is the one whose entries are all None.
to_row(obj) ==
    LET tgt == obj.fileName
        src == obj.secondFileName
        det == obj.comparisonDetails
    IN  IF src = NoName \/ tgt = NoName THEN None
        ELSE IF src = tgt THEN None
        ELSE IF StrLess(tgt, src) THEN None
        ELSE [src_file |-> src, tgt_file |-> tgt,
              src_family |-> split_family_from_name(src),
              tgt_family |-> split_family_from_name(tgt),
              rep_string_minhash |-> to_f32(det.STRING_MINHASH),
              rep_code_regions |-> to_f32(det.CODE_REGION_LIST),
              rep_program_header |-> to_f32(det.PROGRAM_HEADER_VECTOR),
              rep_elf_header |-> to_f32(det.ELF_HEADER_VECTOR),
              rep_section_sizes |-> to_f32(det.SECTION_SIZE_VECTOR),
              label_same_family |->
                  IF split_family_from_name(src) = split_family_from_name(tgt)
                  THEN 1 ELSE 0]

\* What iter_filecomparisons yields of a file: the objects of its array.
\* Of a file that breaks off after the items of data, ijson has yielded
\* those before it fails, and json.load nothing; the failure is printed.
iter_filecomparisons(file) ==
    LET IsObject(o) == o.shape = "object"
    IN  IF file.shape # "list" THEN <<>>
        ELSE IF file.truncated /\ ~has_ijson THEN <<>>
        ELSE SelectSeq(file.data, IsObject)

\* write_chunk_arrow: nothing for no rows; else ds.write_dataset with the
\* default basename template and existing_data_behavior =
\* "overwrite_or_ignore": each src_family the rows have gets them as its
\* part-0.parquet, in the place of the file of that name an earlier call has
\* left; the other partitions keep theirs.
write_chunk_arrow(files, rows) ==
    LET parts == {rows[i].src_family : i \in DOMAIN rows}
    IN  [f \in DOMAIN files \cup parts |->
            IF f \in parts
            THEN LET OfPart(r) == r.src_family = f IN SelectSeq(rows, OfPart)
            ELSE files[f]]

\* preprocess up to the loop: sys.exit(2) when there is no file.
PreprocessBegin ==
    /\ "rep_preprocess" \in scripts
    /\ rpc = "start"
    /\ rpc' = IF input_dir = <<>> THEN "exit" ELSE "scan"
    /\ UNCHANGED <<input_dir, chunk_rows, has_ijson, rfile, robj, buffer,
                   total_rows, kept_rows, files_ok, files_bad, chunks,
                   output_dir, meta, inputVars, collectVars, jsonVars, learnerVars,
                   evaluatorVars, scannerVars, binarizerVars>>

\* One iteration of "for obj in iter_filecomparisons(path)".
PreprocessObj ==
    /\ "rep_preprocess" \in scripts
    /\ rpc = "scan"
    /\ rfile < Len(input_dir)
    /\ robj < Len(iter_filecomparisons(input_dir[rfile + 1]))
    /\ LET obj == iter_filecomparisons(input_dir[rfile + 1])[robj + 1]
           row == to_row(obj)
           filled == Append(buffer, row)
       IN  /\ total_rows' = total_rows + 1
           /\ IF row = None
              THEN UNCHANGED <<buffer, kept_rows, chunks, output_dir>>
              ELSE /\ kept_rows' = kept_rows + 1
                   /\ IF Len(filled) >= chunk_rows
                      THEN /\ output_dir' = write_chunk_arrow(output_dir, filled)
                           /\ chunks' = Append(chunks, filled)
                           /\ buffer' = <<>>
                      ELSE /\ buffer' = filled
                           /\ UNCHANGED <<chunks, output_dir>>
    /\ robj' = robj + 1
    /\ UNCHANGED <<input_dir, chunk_rows, has_ijson, rpc, rfile, files_ok,
                   files_bad, meta, inputVars, collectVars, jsonVars, learnerVars,
                   evaluatorVars, scannerVars, binarizerVars>>

\* The end of one iteration of "for path in json_files".
PreprocessEndFile ==
    /\ "rep_preprocess" \in scripts
    /\ rpc = "scan"
    /\ rfile < Len(input_dir)
    /\ robj = Len(iter_filecomparisons(input_dir[rfile + 1]))
    /\ IF robj > 0
       THEN files_ok' = files_ok + 1 /\ UNCHANGED files_bad
       ELSE files_bad' = files_bad + 1 /\ UNCHANGED files_ok
    /\ rfile' = rfile + 1
    /\ robj' = 0
    /\ UNCHANGED <<input_dir, chunk_rows, has_ijson, rpc, buffer, total_rows,
                   kept_rows, chunks, output_dir, meta, inputVars, collectVars, jsonVars,
                   learnerVars, evaluatorVars, scannerVars, binarizerVars>>

\* After the loop: the last write and _meta.json.
PreprocessFinish ==
    /\ "rep_preprocess" \in scripts
    /\ rpc = "scan"
    /\ rfile = Len(input_dir)
    /\ IF buffer = <<>>
       THEN UNCHANGED <<chunks, output_dir>>
       ELSE /\ output_dir' = write_chunk_arrow(output_dir, buffer)
            /\ chunks' = Append(chunks, buffer)
    /\ buffer' = <<>>
    /\ meta' = [files_ok |-> files_ok, files_bad |-> files_bad,
                total_pairs_seen |-> total_rows, total_pairs_kept |-> kept_rows]
    /\ rpc' = "done"
    /\ UNCHANGED <<input_dir, chunk_rows, has_ijson, rfile, robj, total_rows,
                   kept_rows, files_ok, files_bad, inputVars, collectVars, jsonVars,
                   learnerVars, evaluatorVars, scannerVars, binarizerVars>>

\* ------------------------------------------------------------ specification

\* The rows of a binarized dataset (bin_* columns, label, partition) whose
\* cells are all present: every family, both labels, the given flag triples
\* <<sm, cr, ph>>.
ValidRows(fams, triples) ==
    {[fam |-> f, y |-> Num(l), sm |-> Num(t[1]), cr |-> Num(t[2]), ph |-> Num(t[3])] :
        f \in fams, l \in Labels, t \in triples}

\* The rows with exactly one null cell, the other cells being 1.
NullRows(fams) ==
    {r \in [fam : fams, y : {Num(1), NaN}, sm : {Num(1), NaN},
            cr : {Num(1), NaN}, ph : {Num(1), NaN}] :
        Cardinality({c \in {"y", "sm", "cr", "ph"} : r[c] = NaN}) = 1}

AllTriples == {<<a, b, c>> : a \in Labels, b \in Labels, c \in Labels}

\* Rows of both families, with null cells, over four of the eight patterns.
AggRows ==
    ValidRows(Families, {<<0, 0, 0>>, <<1, 0, 0>>, <<0, 1, 1>>, <<1, 1, 1>>})
        \cup NullRows({"busybox"})

\* Rows of one family over all eight patterns.
EncRows == ValidRows({"busybox"}, AllTriples)

\* ------------------------------------------------ scripts/collect_elfs.py

\* The decimal digits of a count below 100, as str() writes them.
DecimalDigits(n) ==
    LET digit(k) == <<"0", "1", "2", "3", "4", "5", "6", "7", "8", "9">>[k + 1]
    IN  IF n < 10 THEN <<digit(n)>> ELSE <<digit(n \div 10), digit(n % 10)>>

\* Where the suffix of a file name starts: at its last dot, unless that is
\* its first or its last character; past the end when it has none.
SuffixStart(name) ==
    LET dots == {i \in DOMAIN name : name[i] = "."}
        last == CHOOSE i \in dots : \A j \in dots : j <= i
    IN  IF dots # {} /\ 1 < last /\ last < Len(name)
        THEN last ELSE Len(name) + 1

\* Path(base).stem and Path(base).suffix.
stem(name) == SubSeq(name, 1, SuffixStart(name) - 1)

suffix(name) == SubSeq(name, SuffixStart(name), Len(name))

\* dest_name, which counts every found base name alike.
dest_name_counted(base, count) ==
    stem(base) \o <<"_">> \o DecimalDigits(count) \o suffix(base)

\* dest_name: the base name of the first file found under it, and
\* <stem>_<count><suffix> of the later ones.
dest_name(base, count) ==
    IF count # 0 THEN dest_name_counted(base, count) ELSE base

\* seen.get(base, 0).
SeenCount(base) == IF base \in DOMAIN seen THEN seen[base] ELSE 0

\* The start of an image: without a rootfs.tar* it is skipped; with one,
\* elfs/ is made and the archive extracted.
CollectBegin ==
    /\ cpc = "start"
    /\ cpc' = IF has_archive THEN "walk" ELSE "done"
    /\ UNCHANGED <<tmp_path, has_archive, walked, seen, elfs_dir, inputVars,
                   learnerVars, evaluatorVars, scannerVars, binarizerVars,
                   jsonVars, repVars>>

\* One entry of tmp_path.rglob('*'), which yields them in the order of the
\* file system: a directory or a file that is no ELF file is passed over,
\* an ELF file is copied to elfs/ under its dest_name, over a file of that
\* name.
CollectEntry ==
    /\ cpc = "walk"
    /\ \E d \in DOMAIN tmp_path \ walked :
          LET src == tmp_path[d]
              base == src.name
              count == SeenCount(base)
              dst == dest_name(base, count)
          IN  /\ walked' = walked \cup {d}
              /\ IF src.kind # "elf"
                 THEN UNCHANGED <<seen, elfs_dir>>
                 ELSE /\ seen' = [b \in DOMAIN seen \cup {base} |->
                                     IF b = base THEN count + 1 ELSE seen[b]]
                      /\ elfs_dir' = [n \in DOMAIN elfs_dir \cup {dst} |->
                                         IF n = dst THEN d ELSE elfs_dir[n]]
    /\ UNCHANGED <<tmp_path, has_archive, cpc, inputVars, learnerVars,
                   evaluatorVars, scannerVars, binarizerVars, jsonVars,
                   repVars>>

\* The end of the walk: the temporary directory is removed.
CollectFinish ==
    /\ cpc = "walk"
    /\ walked = DOMAIN tmp_path
    /\ cpc' = "done"
    /\ UNCHANGED <<tmp_path, has_archive, walked, seen, elfs_dir, inputVars,
                   learnerVars, evaluatorVars, scannerVars, binarizerVars,
                   jsonVars, repVars>>

EmptyMap == [f \in {} |-> ZeroCounts]

\* The JSON evaluators before their scan, over the families given.
JsonStart ==
    /\ jpc = "scan" /\ jfile = 0 /\ overall = NoCounts /\ overall_row = <<>>
    /\ fpc = "scan" /\ ffile = 0 /\ fam_rows = <<>>
    /\ fam_counts = [f \in FamSet(json_families) |-> NoCounts]

\* No JSON folder is evaluated.
JsonInit == json_dir = <<>> /\ json_families = <<>> /\ JsonStart

\* preprocess of rep_threshold before its first statement.
RepStart ==
    /\ rpc = "start" /\ rfile = 0 /\ robj = 0 /\ buffer = <<>>
    /\ total_rows = 0 /\ kept_rows = 0 /\ files_ok = 0 /\ files_bad = 0
    /\ chunks = <<>> /\ output_dir = <<>> /\ meta = <<>>

\* The preprocessor of rep_threshold is not run.
RepInit ==
    /\ input_dir = <<>> /\ chunk_rows = CHUNK_ROWS /\ has_ijson = TRUE
    /\ RepStart

\* extract_elfs_from_roots before an image, elfs/ being empty.
CollectStart ==
    /\ cpc = "start" /\ walked = {} /\ seen = <<>> /\ elfs_dir = <<>>

\* collect_elfs.py is not run.
CollectInit == tmp_path = <<>> /\ has_archive = FALSE /\ CollectStart

LearnerInit ==
    /\ lpc = "scan" /\ lpos = 0 /\ counts = ZeroCounts
    /\ total_seen = 0 /\ total_kept = 0 /\ design = <<>>
    /\ fit_calls = 0 /\ coef = <<>> /\ weights = <<>> /\ model_out = <<>>

EvaluatorInit ==
    /\ epc = "scan" /\ epos = 0
    /\ counts_global = ZeroCounts /\ counts_by_family = EmptyMap
    /\ n_pos = 0 /\ n_neg = 0 /\ rows_global = <<>> /\ best_idx = -1
    /\ rows_fam_all = EmptyMap

ScannerInit ==
    /\ spc = "scan" /\ spos = 0 /\ xs = <<>> /\ ys = <<>> /\ pos = 0 /\ neg = 0
    /\ roc = <<>> /\ best_j = <<>> /\ rec_thrs = <<>>

BinarizerInit ==
    /\ wpc = "scan" /\ wpos = 0 /\ total_in = 0 /\ total_out = 0
    /\ table = <<>> /\ out_files = EmptyMap

\* No --family, --neg-pos-ratio 0 and --max-rows 0: the defaults.
KeepAll == family = "" /\ neg_pos_ratio = [num |-> 0, den |-> 1] /\ max_rows = 0

\* One of the two aggregating scripts is run on a binarized dataset.
Init ==
    /\ data \in SeqsUpTo(AggRows, MaxRows)
    /\ \/ scripts = {"find_weights"} /\ families \in {{}, {"busybox"}}
          /\ by_family = FALSE /\ threshold_arg = <<>>
       \/ scripts = {"evaluate"} /\ families = {}
          /\ by_family \in BOOLEAN /\ threshold_arg = <<>>
    /\ KeepAll
    /\ LearnerInit
    /\ EvaluatorInit
    /\ ScannerInit
    /\ BinarizerInit
    /\ RepInit
    /\ CollectInit
    /\ JsonInit

Next ==
    \/ \E n \in 1..MaxBatch : LearnerBatch(n)
    \/ BuildDesign
    \/ \E n \in 1..MaxBatch : EvaluatorBatch(n)
    \/ EvalMain

Spec == Init /\ [][Next]_vars

\* One of the two aggregating scripts is run on a dataset in which every
\* pattern occurs.
InitEnc ==
    /\ data \in SeqsUpTo(EncRows, MaxRows)
    /\ scripts \in {{"find_weights"}, {"evaluate"}}
    /\ families = {} /\ by_family = FALSE /\ threshold_arg = <<>>
    /\ KeepAll
    /\ LearnerInit
    /\ EvaluatorInit
    /\ ScannerInit
    /\ BinarizerInit
    /\ RepInit
    /\ CollectInit
    /\ JsonInit

SpecEnc == InitEnc /\ [][Next]_vars

\* The exported comparisons of one anchor file with a file of its own and of
\* another family, each detector either silent or exactly at its threshold.
ValidRecords ==
    {[secondFileName |-> [family |-> "busybox", file |-> "a"],
      fileName |-> [family |-> f, file |-> "b"],
      STRING_MINHASH |-> sm, CODE_REGION_LIST |-> cr, PROGRAM_HEADER_VECTOR |-> ph,
      binary |-> <<>>] :
        f \in Families,
        sm \in {Num(0), Num(TEST_TAU.STRING_MINHASH)},
        cr \in {Num(0), Num(TEST_TAU.CODE_REGION_LIST)},
        ph \in {Num(0), Num(TEST_TAU.PROGRAM_HEADER_VECTOR)}}

\* The dataset that test/preprocess.py writes for them.
SuffRows == {TestRow(d) : d \in ValidRecords}

\* evaluate.py and find_threshold.py are both run on one preprocessed
\* dataset, the first on its bin_* columns, the second on its rep_* columns.
InitSuff ==
    /\ data \in SeqsUpTo(SuffRows, MaxRows)
    /\ scripts = {"evaluate", "find_threshold"}
    /\ families = {} /\ by_family = FALSE /\ threshold_arg = <<>>
    /\ KeepAll
    /\ LearnerInit
    /\ EvaluatorInit
    /\ ScannerInit
    /\ BinarizerInit
    /\ RepInit
    /\ CollectInit
    /\ JsonInit

NextSuff ==
    \/ \E n \in 1..MaxBatch : EvaluatorBatch(n)
    \/ EvalMain
    \/ \E n \in 1..MaxBatch : ScanBatch(n)
    \/ ScanReturn

SpecSuff == InitSuff /\ [][NextSuff]_vars

\* The cells <<label 0, label 1>> that a pattern of a histogram may hold.
CellPairs == {<<100, 0>>, <<0, 50>>, <<1, 2>>}

\* The histograms with two occupied patterns.
Histograms ==
    {[p \in Patterns |-> [l \in Labels |->
        IF p = a THEN ca[l + 1] ELSE IF p = b THEN cb[l + 1] ELSE 0]] :
        a \in Patterns, b \in Patterns, ca \in CellPairs, cb \in CellPairs}

\* The threshold 0.5.
Half == (W_SM + W_CR + W_PH) \div 2

\* evaluate.py has aggregated some dataset into a histogram and is about to
\* evaluate it, with or without --thresholds 0.5; the dataset itself plays
\* no part any more.
InitMetrics ==
    /\ data = <<>>
    /\ scripts = {"evaluate"}
    /\ families = {} /\ by_family = FALSE
    /\ threshold_arg \in {<<>>, <<Half>>}
    /\ KeepAll
    /\ LearnerInit
    /\ ScannerInit
    /\ BinarizerInit
    /\ RepInit
    /\ CollectInit
    /\ JsonInit
    /\ epc = "scan" /\ epos = 0
    /\ counts_global \in Histograms \cup {ZeroCounts}
    /\ counts_by_family = EmptyMap
    /\ n_pos = SumOver([p \in Patterns |-> counts_global[p][1]], Patterns)
    /\ n_neg = SumOver([p \in Patterns |-> counts_global[p][0]], Patterns)
    /\ rows_global = <<>> /\ best_idx = -1
    /\ rows_fam_all = EmptyMap

NextMetrics == EvalMain

SpecMetrics == InitMetrics /\ [][NextMetrics]_vars

\* The histogram with every cell occupied.
FullHistogram == [p \in Patterns |-> [l \in Labels |-> p + l + 1]]

\* find_weights.py has aggregated some dataset into a histogram and goes on
\* to build the design, fit and write the model; the dataset itself plays no
\* part any more.
InitFit ==
    /\ data = <<>>
    /\ scripts = {"find_weights"}
    /\ families = {} /\ by_family = FALSE /\ threshold_arg = <<>>
    /\ KeepAll
    /\ EvaluatorInit
    /\ ScannerInit
    /\ BinarizerInit
    /\ RepInit
    /\ CollectInit
    /\ JsonInit
    /\ lpc = "scan" /\ lpos = 0
    /\ counts \in Histograms \cup {ZeroCounts, FullHistogram}
    /\ total_seen = SumOver([p \in Patterns |-> counts[p][0] + counts[p][1]], Patterns)
    /\ total_kept = total_seen
    /\ design = <<>>
    /\ fit_calls = 0 /\ coef = <<>> /\ weights = <<>> /\ model_out = <<>>

NextFit ==
    \/ BuildDesign
    \/ \E c \in Coefs : Fit(c)
    \/ WriteModel

SpecFit == InitFit /\ [][NextFit]_vars

\* Most records of one score and label in a sample.
MaxCount == 2

\* The scores that find_threshold.py gives to the flag triples 000, 001
\* (string-minhash only) and 111.
SampleScores == <<F32(0), F32(FT_W_SM), F32(FT_W_SM + FT_W_CR + FT_W_PH)>>

\* n copies of e.
Copies(n, e) == [i \in 1..n |-> e]

\* The sample with c[k][l + 1] records of score SampleScores[k] and label l,
\* as a sequence of <<score, label>>.
SampleOf(c) ==
    Copies(c[1][1], <<SampleScores[1], 0>>) \o Copies(c[1][2], <<SampleScores[1], 1>>)
        \o Copies(c[2][1], <<SampleScores[2], 0>>) \o Copies(c[2][2], <<SampleScores[2], 1>>)
        \o Copies(c[3][1], <<SampleScores[3], 0>>) \o Copies(c[3][2], <<SampleScores[3], 1>>)

\* The counts of the samples: up to MaxCount records of each score and
\* label; 100 negatives of score 0 with 50 positives of score 1; and 18
\* positives of score 1 with a positive and a negative of each lower score.
SampleCounts ==
    [1..3 -> [1..2 -> 0..MaxCount]]
        \cup {<<<<100, 0>>, <<0, 0>>, <<0, 50>>>>, <<<<1, 1>>, <<1, 1>>, <<0, 18>>>>}

\* find_threshold.py has scanned some dataset into a sample of scores and
\* labels and goes on to pick the thresholds; the dataset itself plays no
\* part any more.
InitPick ==
    /\ data = <<>>
    /\ scripts = {"find_threshold"}
    /\ families = {} /\ by_family = FALSE /\ threshold_arg = <<>>
    /\ KeepAll
    /\ LearnerInit
    /\ EvaluatorInit
    /\ BinarizerInit
    /\ RepInit
    /\ CollectInit
    /\ JsonInit
    /\ spc = "done" /\ spos = 0
    /\ \E c \in SampleCounts :
          /\ xs = [i \in DOMAIN SampleOf(c) |-> SampleOf(c)[i][1]]
          /\ ys = [i \in DOMAIN SampleOf(c) |-> SampleOf(c)[i][2]]
    /\ pos = 0 /\ neg = 0
    /\ roc = <<>> /\ best_j = <<>> /\ rec_thrs = <<>>

NextPick == PickThresholds

SpecPick == InitPick /\ [][NextPick]_vars

\* A raw row: partition, label and the three raw detector values.
RawRow(f, l, sm, cr, ph) ==
    [fam |-> f, y |-> Num(l), rep_sm |-> sm, rep_cr |-> cr, rep_ph |-> ph]

\* The cells a raw float32 column can hold besides a number.
NonFinite == {NaN, PosInf, NegInf}

\* Raw rows of both families whose detectors are each silent or exactly at
\* the threshold, and rows with one null or infinite value.
RawRows ==
    {RawRow(f, 1, sm, cr, ph) :
        f \in Families,
        sm \in {Num(0), Num(TAU.STRING_MINHASH)},
        cr \in {Num(0), Num(TAU.CODE_REGION_LIST)},
        ph \in {Num(0), Num(TAU.PROGRAM_HEADER_VECTOR)}}
    \cup {RawRow("busybox", 0, Num(TAU.STRING_MINHASH),
                  Num(TAU.CODE_REGION_LIST), Num(TAU.PROGRAM_HEADER_VECTOR))}
    \cup {RawRow("busybox", 1, c, Num(TAU.CODE_REGION_LIST),
                  Num(TAU.PROGRAM_HEADER_VECTOR)) : c \in NonFinite}
    \cup {RawRow("busybox", 1, Num(TAU.STRING_MINHASH), c,
                  Num(TAU.PROGRAM_HEADER_VECTOR)) : c \in NonFinite}
    \cup {RawRow("busybox", 1, Num(TAU.STRING_MINHASH),
                  Num(TAU.CODE_REGION_LIST), c) : c \in NonFinite}

\* weight/preprocess.py is run on a dataset of raw detector values.
InitBin ==
    /\ data \in SeqsUpTo(RawRows, MaxRows)
    /\ scripts = {"weight_preprocess"}
    /\ families = {} /\ by_family = FALSE /\ threshold_arg = <<>>
    /\ KeepAll
    /\ LearnerInit
    /\ EvaluatorInit
    /\ ScannerInit
    /\ BinarizerInit
    /\ RepInit
    /\ CollectInit
    /\ JsonInit

NextBin ==
    \/ \E n \in 1..MaxBatch : BinarizeBatch(n)
    \/ BinarizeDone

SpecBin == InitBin /\ [][NextBin]_vars

\* Names of two busybox binaries, one in upper case, and of a uci binary.
BusyA == <<"b", "_", "_", "_", "1">>

BusyB == <<"B", "_", "_", "_", "2">>

UciA == <<"u", "_", "_", "_", "1">>

\* A comparison record of a JSON file.
Rec(second, file, score) ==
    [shape |-> "object", secondFileName |-> second, fileName |-> file,
     score_weighted |-> score]

\* An item of the array that is no object: a JSON null.
NullRecord ==
    [shape |-> "null", secondFileName |-> NoName, fileName |-> NoName,
     score_weighted |-> None]

\* Records of every outcome: counted as tp, fp, fn and tn; with the score
\* missing, not numeric, NaN and infinite; no object; without the anchor's
\* name.
JsonRecords ==
    {Rec(BusyA, BusyB, Num(One)), Rec(BusyA, UciA, Num(DEFAULT_THR)),
     Rec(BusyA, BusyB, Num(0)), Rec(BusyA, UciA, Num(0)),
     Rec(BusyA, BusyB, None), Rec(BusyA, BusyB, NotNumeric),
     Rec(BusyA, BusyB, NaN), Rec(BusyA, UciA, PosInf),
     NullRecord, Rec(NoName, BusyB, Num(One))}

\* A file that json.load parses to the array recs.
ListFile(recs) == [shape |-> "list", data |-> recs]

\* A file that json.load refuses, or parses to something that is no array.
NotAList == [shape |-> "other", data |-> <<>>]

\* The files: arrays of no, one and three records, and NotAList.
JsonFiles ==
    {NotAList, ListFile(<<>>)}
    \cup {ListFile(<<r>>) : r \in JsonRecords}
    \cup {ListFile(<<r1, r2, r3>>) : r1 \in JsonRecords, r2 \in JsonRecords,
                                     r3 \in JsonRecords}

\* The files that may follow the first: one of uci's, one of busybox's.
LaterFiles ==
    {ListFile(<<Rec(UciA, UciA, Num(One))>>),
     ListFile(<<Rec(BusyB, BusyA, Num(One)), Rec(BusyB, UciA, Num(0))>>)}

\* The folders: one file, or one file and a later one.
JsonDirs ==
    {<<f>> : f \in JsonFiles} \cup {<<f, g>> : f \in JsonFiles, g \in LaterFiles}

\* The families lists of eval_by_family.py: busybox; busybox and uci;
\* busybox in capitals between blanks, then a blank entry; and busybox
\* twice, the second time in capitals between blanks.
FamilyLists ==
    {<<<<"b">>>>, <<<<"b">>, <<"u">>>>, <<<<" ", "B", " ">>, <<" ">>>>,
     <<<<"b">>, <<" ", "B", " ">>>>}

\* eval_all.py or eval_by_family.py is about to scan a folder of JSON files.
InitJson ==
    /\ data = <<>>
    /\ families = {} /\ by_family = FALSE /\ threshold_arg = <<>>
    /\ KeepAll
    /\ LearnerInit
    /\ EvaluatorInit
    /\ ScannerInit
    /\ BinarizerInit
    /\ RepInit
    /\ CollectInit
    /\ json_dir \in JsonDirs
    /\ \/ scripts = {"eval_all"} /\ json_families = <<>>
       \/ scripts = {"eval_by_family"} /\ json_families \in FamilyLists
    /\ JsonStart

NextJson ==
    \/ ScanJsonFile
    \/ EvalOverallReturn
    \/ ScanJsonFileByFamily
    \/ EvalByFamilyReturn

SpecJson == InitJson /\ [][NextJson]_vars

\* The comparisonDetails of the objects: a score, one absent, one float()
\* refuses, a NaN and a zero.
Details ==
    [STRING_MINHASH |-> Num(500000000), CODE_REGION_LIST |-> None,
     PROGRAM_HEADER_VECTOR |-> NotNumeric, ELF_HEADER_VECTOR |-> NaN,
     SECTION_SIZE_VECTOR |-> Num(0)]

\* A FileComparison object: the comparison of the input src with tgt.
Obj(src, tgt) ==
    [shape |-> "object", secondFileName |-> src, fileName |-> tgt,
     comparisonDetails |-> Details]

\* An item of the array that is no object.
NullItem ==
    [shape |-> "null", secondFileName |-> NoName, fileName |-> NoName,
     comparisonDetails |-> Details]

\* The file names: B___2 < b < b___1 < u___1, and the one that is absent.
RepNames == {BusyA, BusyB, UciA, <<"b">>, NoName}

RepItems == {Obj(a, b) : a \in RepNames, b \in RepNames} \cup {NullItem}

\* A file that parses to the array items.
RepFile(items) == [shape |-> "list", data |-> items, truncated |-> FALSE]

\* The files: arrays of no, one and two items, an array that breaks off
\* after its first item, and a file that holds no array.
RepFiles ==
    {RepFile(<<>>)}
    \cup {RepFile(<<o>>) : o \in RepItems}
    \cup {RepFile(<<o1, o2>>) : o1 \in RepItems, o2 \in RepItems}
    \cup {[shape |-> "list", data |-> <<Obj(BusyB, UciA)>>, truncated |-> TRUE],
          [shape |-> "other", data |-> <<>>, truncated |-> FALSE]}

\* The files that may follow the first.
LaterRepFiles ==
    {RepFile(<<Obj(BusyA, BusyB), Obj(UciA, UciA)>>),
     RepFile(<<Obj(BusyB, BusyA), Obj(BusyB, UciA)>>)}

\* The input folders: none, one or two files.
RepDirs ==
    {<<>>} \cup {<<f>> : f \in RepFiles}
           \cup {<<f, g>> : f \in RepFiles, g \in LaterRepFiles}

\* rep_threshold/preprocess.py is about to run on a folder of JSON files.
InitRep ==
    /\ data = <<>>
    /\ scripts = {"rep_preprocess"}
    /\ families = {} /\ by_family = FALSE /\ threshold_arg = <<>>
    /\ KeepAll
    /\ LearnerInit
    /\ EvaluatorInit
    /\ ScannerInit
    /\ BinarizerInit
    /\ JsonInit
    /\ CollectInit
    /\ input_dir \in RepDirs
    /\ chunk_rows \in {1, 2, CHUNK_ROWS}
    /\ has_ijson \in BOOLEAN
    /\ RepStart

NextRep ==
    \/ PreprocessBegin
    \/ PreprocessObj
    \/ PreprocessEndFile
    \/ PreprocessFinish

SpecRep == InitRep /\ [][NextRep]_vars

\* Rows for the subsampling scan: a positive and a negative of busybox, a
\* negative of dropbear and a positive with a null detector value.
ScanRows ==
    {RawRow("busybox", 1, Num(TAU_SM), Num(TAU_CR), Num(TAU_PH)),
     RawRow("busybox", 0, Num(TAU_SM), Num(0), Num(0)),
     RawRow("dropbear", 0, Num(0), Num(0), Num(0)),
     RawRow("busybox", 1, NaN, Num(TAU_CR), Num(TAU_PH))}

\* The values of --neg-pos-ratio: 0, 0.5, 1 and 2.
Ratios ==
    {[num |-> 0, den |-> 1], [num |-> 1, den |-> 2], [num |-> 1, den |-> 1],
     [num |-> 2, den |-> 1]}

\* find_threshold.py scans a dataset with some --family, --neg-pos-ratio and
\* --max-rows.
InitScan ==
    /\ data \in SeqsUpTo(ScanRows, MaxScanRows)
    /\ scripts = {"find_threshold"}
    /\ families = {} /\ by_family = FALSE /\ threshold_arg = <<>>
    /\ family \in {"", "busybox"}
    /\ neg_pos_ratio \in Ratios
    /\ max_rows \in {0, 1, 3}
    /\ LearnerInit
    /\ EvaluatorInit
    /\ ScannerInit
    /\ BinarizerInit
    /\ RepInit
    /\ CollectInit
    /\ JsonInit

NextScan ==
    \/ \E n \in 1..MaxBatch : ScanBatch(n)
    \/ ScanReturn

SpecScan == InitScan /\ [][NextScan]_vars

\* Folders for the count of the JSON scan: records of all four outcomes,
\* one with a NaN score, one that is no object, a file that is no array,
\* and a second file.
CountDirs ==
    {<<>>,
     <<ListFile(<<Rec(BusyA, BusyB, Num(One)), Rec(BusyA, UciA, Num(DEFAULT_THR)),
                  Rec(BusyA, BusyB, Num(0))>>)>>,
     <<ListFile(<<Rec(BusyA, UciA, Num(0)), Rec(BusyA, BusyB, NaN),
                  Rec(BusyA, BusyB, Num(One))>>),
       ListFile(<<Rec(UciA, UciA, Num(One)), Rec(UciA, BusyA, Num(0))>>)>>,
     <<ListFile(<<Rec(BusyA, UciA, Num(One)), NullRecord,
                  Rec(BusyA, BusyB, Num(One))>>)>>,
     <<NotAList, ListFile(<<Rec(BusyA, UciA, Num(0)), Rec(BusyA, BusyB, None)>>)>>,
     <<ListFile(<<Rec(BusyA, BusyB, Num(0)), Rec(BusyA, BusyB, Num(0))>>),
       ListFile(<<Rec(NoName, BusyB, Num(One))>>)>>}

\* evaluate.py is about to evaluate a histogram, and eval_all.py to scan a
\* folder of JSON files.
InitCounts ==
    /\ data = <<>>
    /\ scripts = {"evaluate", "eval_all"}
    /\ families = {} /\ by_family = FALSE
    /\ threshold_arg \in {<<>>, <<Half>>}
    /\ KeepAll
    /\ LearnerInit
    /\ ScannerInit
    /\ BinarizerInit
    /\ RepInit
    /\ CollectInit
    /\ epc = "scan" /\ epos = 0
    /\ counts_global \in Histograms \cup {ZeroCounts}
    /\ counts_by_family = EmptyMap
    /\ n_pos = SumOver([p \in Patterns |-> counts_global[p][1]], Patterns)
    /\ n_neg = SumOver([p \in Patterns |-> counts_global[p][0]], Patterns)
    /\ rows_global = <<>> /\ best_idx = -1
    /\ rows_fam_all = EmptyMap
    /\ json_dir \in CountDirs
    /\ json_families = <<>>
    /\ JsonStart

NextCounts ==
    \/ EvalMain
    \/ ScanJsonFile
    \/ EvalOverallReturn

SpecCounts == InitCounts /\ [][NextCounts]_vars

\* ------------------------------------------------------- claims: aggregation

\* The sum of the 16 cells of a histogram.
Total(cnt) == SumOver([p \in Patterns |-> cnt[p][0] + cnt[p][1]], Patterns)

\* The elementwise sum of two histograms.
HistAdd(a, b) == [p \in Patterns |-> [l \in Labels |-> a[p][l] + b[p][l]]]

\* A row with a missing or non-finite label or flag.
Malformed(r) == \E c \in {"y", "sm", "cr", "ph"} : r[c].kind # "num"

\* The pattern of a well-formed row, by arithmetic on its flags.
RefPattern(r) == 4 * r.ph.v + 2 * r.cr.v + r.sm.v

\* The rows the learner has been handed, and those the evaluator has.
LearnerSeen == SubSeq(data, 1, lpos)

EvaluatorSeen == SubSeq(data, 1, epos)

\* The histogram of the well-formed rows of a sequence, counted row by row.
RefHist(rows, fams) ==
    [p \in Patterns |-> [l \in Labels |->
        Cardinality({i \in DOMAIN rows :
            /\ ~Malformed(rows[i]) /\ rows[i].fam \in fams
            /\ RefPattern(rows[i]) = p /\ rows[i].y.v = l})]]

InFamilies(r) == families = {} \/ r.fam \in families

\* C3: after any number of batches the 16 cells of the histogram sum to the
\* number of rows kept so far: total_kept in the weight learner, n_pos + n_neg
\* in the evaluator, each being the number of rows handed over that passed the
\* validity mask.
C3_CellsSumToKept ==
    /\ Total(counts) = total_kept
    /\ total_kept = Len(SelectSeq(LearnerSeen, LearnerMask))
    /\ Total(counts_global) = n_pos + n_neg
    /\ n_pos + n_neg = Len(SelectSeq(EvaluatorSeen, EvaluatorMask))

\* The learner has scanned everything, kept two rows and dropped none.
C3_Witness ==
    /\ "find_weights" \in scripts /\ lpos = Len(data)
    /\ total_kept >= 2 /\ Total(counts) >= 2

\* C4: a malformed row changes no cell, is counted in total_seen and not in
\* total_kept, and the rows and batches after it are still processed: the
\* scan goes on while rows are left, total_kept <= total_seen, and
\* total_seen - total_kept is the number of excluded rows.
C4_MalformedRowsAreSkipped ==
    /\ total_seen = lpos
    /\ total_kept <= total_seen
    /\ total_seen - total_kept =
          Cardinality({i \in 1..lpos : Malformed(data[i]) \/ ~InFamilies(data[i])})
    /\ families = {} =>
          total_seen - total_kept = Cardinality({i \in 1..lpos : Malformed(data[i])})
    /\ counts = RefHist(LearnerSeen, IF families = {} THEN Families ELSE families)
    /\ ("find_weights" \in scripts /\ lpc = "scan" /\ lpos < Len(data))
          => ENABLED LearnerBatch(1)

\* A malformed first row was excluded and a later row was counted.
C4_Witness ==
    /\ "find_weights" \in scripts /\ lpos = Len(data) /\ Len(data) >= 2
    /\ Malformed(data[1])
    /\ total_seen - total_kept = 1 /\ Total(counts) >= 1

\* The rows of s at the indices f[1], f[2], ...
Rearranged(s, f) == [i \in DOMAIN f |-> s[f[i]]]

Perms(n) == {f \in [1..n -> 1..n] : \A i, j \in 1..n : f[i] = f[j] => i = j}

\* C9: the histogram is the same whatever the batch boundaries and the order
\* of the rows, and the histograms of two disjoint parts of the stream add up
\* to the histogram of the whole stream.
C9_AggregationIsAReduction ==
    /\ \A f \in Perms(lpos) :
          LearnerCounts(ZeroCounts, Rearranged(LearnerSeen, f)) = counts
    /\ \A I \in SUBSET (1..lpos) :
          LET In(i) == i \in I
              Out(i) == i \notin I
              part1 == Rearranged(LearnerSeen, SelectSeq([i \in 1..lpos |-> i], In))
              part2 == Rearranged(LearnerSeen, SelectSeq([i \in 1..lpos |-> i], Out))
          IN  HistAdd(LearnerCounts(ZeroCounts, part1),
                      LearnerCounts(ZeroCounts, part2)) = counts

\* Two rows of different cells have been aggregated.
C9_Witness ==
    /\ "find_weights" \in scripts /\ lpos >= 2 /\ Total(counts) >= 2
    /\ Cardinality({c \in Patterns \X Labels : counts[c[1]][c[2]] > 0}) >= 2

\* C10: with --by-family every kept row adds one to its cell of the global
\* histogram and one to the same cell of its own family's histogram: the
\* family histograms add up to the global one, and each counts exactly the
\* rows of its family.
C10_FamilyHistogramsAddUp ==
    by_family =>
        /\ \A p \in Patterns, l \in Labels :
              SumOver([f \in DOMAIN counts_by_family |-> counts_by_family[f][p][l]],
                      DOMAIN counts_by_family) = counts_global[p][l]
        /\ DOMAIN counts_by_family =
              {EvaluatorSeen[i].fam : i \in {k \in 1..epos : ~Malformed(data[k])}}
        /\ \A f \in DOMAIN counts_by_family :
              counts_by_family[f] = RefHist(EvaluatorSeen, {f})

\* Rows of two families have been counted.
C10_Witness ==
    /\ by_family /\ epos >= 2
    /\ Cardinality(DOMAIN counts_by_family) = 2

\* ---------------------------------------------------------- claims: encoding

\* The flag triples <<b0, b1, b2>> = <<string-minhash, code-regions,
\* program-header>> of the well-formed rows of the dataset.
FlagsOf(r) == <<r.sm.v, r.cr.v, r.ph.v>>

\* encode(b0, b1, b2) = (b2 << 2) | (b1 << 1) | b0, by arithmetic.
Encode(t) == 4 * t[3] + 2 * t[2] + t[1]

WellFormed == {i \in DOMAIN data : ~Malformed(data[i])}

\* C6: the pattern of a row is (b2 << 2) | (b1 << 1) | b0 with b0 the
\* string-minhash flag, b1 the code-regions flag and b2 the program-header
\* flag; it lies in 0..7, distinct triples have distinct patterns, all eight
\* values occur, both aggregators compute the same pattern for a row, and
\* each counts the row in the cell of that pattern.
C6_PatternEncoding ==
    /\ \A i \in WellFormed :
          /\ LearnerPattern(data[i]) = Encode(FlagsOf(data[i]))
          /\ EvaluatorPattern(data[i]) = LearnerPattern(data[i])
          /\ EvaluatorPattern(data[i]) \in Patterns
    /\ \A i, j \in WellFormed :
          EvaluatorPattern(data[i]) = EvaluatorPattern(data[j])
              => FlagsOf(data[i]) = FlagsOf(data[j])
    /\ {LearnerPattern(r) : r \in EncRows} = Patterns
    /\ {EvaluatorPattern(r) : r \in EncRows} = Patterns
    /\ counts = RefHist(LearnerSeen, Families)
    /\ counts_global = RefHist(EvaluatorSeen, Families)

\* The evaluator has counted a row whose flags are 0, 1, 1 (pattern 6) and
\* one whose flags are 1, 0, 0 (pattern 1).
C6_Witness ==
    /\ "evaluate" \in scripts /\ epos = Len(data)
    /\ counts_global[6][0] + counts_global[6][1] >= 1
    /\ counts_global[1][0] + counts_global[1][1] >= 1

\* The original statement of C7: _bits_from_pattern of the pattern of the
\* flags (b0, b1, b2) is (b0, b1, b2), and encoding the decoded triple of a
\* pattern gives the pattern.
C7_Original ==
    /\ \A i \in WellFormed :
          bits_from_pattern(LearnerPattern(data[i])) = FlagsOf(data[i])
    /\ \A p \in Patterns : Encode(bits_from_pattern(p)) = p

\* C7, amended: _bits_from_pattern of the pattern of the flags (b0, b1, b2)
\* is (b2, b1, b0), the flags in the order of FEATURES (program-header,
\* code-regions, string-minhash); putting each decoded bit back at its own
\* detector's position gives the pattern again.
C7_DecodeInFeatureOrder ==
    /\ \A i \in WellFormed :
          LET bits == bits_from_pattern(LearnerPattern(data[i]))
          IN  /\ bits = <<data[i].ph.v, data[i].cr.v, data[i].sm.v>>
              /\ \A j \in DOMAIN FEATURES : bits[j] = data[i][BIN_COLS[FEATURES[j]]].v
    /\ \A p \in Patterns :
          LET bits == bits_from_pattern(p)
          IN  Encode(<<bits[3], bits[2], bits[1]>>) = p

\* The learner has counted a row whose string-minhash flag is 1 and whose
\* program-header flag is 0.
C7_Witness ==
    /\ "find_weights" \in scripts /\ lpos = Len(data)
    /\ \E i \in DOMAIN data : data[i].sm.v = 1 /\ data[i].ph.v = 0
    /\ Total(counts) >= 1

\* The weight of each detector, by name.
WeightOf == [STRING_MINHASH |-> W_SM, CODE_REGION_LIST |-> W_CR, PROGRAM_HEADER_VECTOR |-> W_PH]

\* C8: every consumer pairs a detector's weight with that detector's bit.
\* The score of a row's pattern is the sum of the weights of the detectors
\* whose flag is set in the row, and column j of the design matrix holds the
\* flag of detector FEATURES[j]: each design row's sample weight is the
\* number of rows of the dataset with those flags and that label.
C8_WeightsPairedWithTheirBits ==
    /\ \A i \in WellFormed :
          SCORES_BY_PATTERN[EvaluatorPattern(data[i]) + 1] =
              SumOver([j \in DOMAIN FEATURES |->
                          WeightOf[FEATURES[j]] * data[i][BIN_COLS[FEATURES[j]]].v],
                      DOMAIN FEATURES)
    /\ \A p \in Patterns :
          SCORES_BY_PATTERN[p + 1] =
              W_SM * BitAt(p, 0) + W_CR * BitAt(p, 1) + W_PH * BitAt(p, 2)
    /\ lpc = "fit" =>
          \A k \in DOMAIN design :
              design[k].w =
                  Cardinality({i \in WellFormed :
                      /\ data[i].y.v = design[k].y
                      /\ \A j \in DOMAIN FEATURES :
                            data[i][BIN_COLS[FEATURES[j]]].v = design[k].X[j]})

\* The design matrix holds a row whose string-minhash column differs from
\* its program-header column.
C8_Witness ==
    /\ lpc = "fit"
    /\ \E k \in DOMAIN design : design[k].X[1] # design[k].X[3]

\* ------------------------------------------------------- claims: sufficiency

\* The confusion counts of a result row.
Confusion(m) == <<m.tp, m.fp, m.tn, m.fn>>

\* The scores a record can get: the entries of evaluate.py's score table and
\* the scores that find_threshold.py gives to the eight flag triples.
AchievableThresholds ==
    {SCORES_BY_PATTERN[p + 1] : p \in Patterns}
        \cup {F32(FT_W_SM * a + FT_W_CR * b + FT_W_PH * c) :
                a \in Labels, b \in Labels, c \in Labels}

\* C1: whenever both scripts have read the same valid records, then for
\* every achievable threshold the counts tp, fp, tn, fn that
\* metrics_at_threshold gets from the scored records equal the counts that
\* eval_thresholds_from_counts gets from the histogram.
C1_Sufficiency ==
    (spos = epos) =>
        \A thr \in AchievableThresholds :
            Confusion(metrics_at_threshold(ys, xs, thr))
                = Confusion(EvalRow(counts_global, thr))

\* The two routes agree on every entry of evaluate.py's own score table.
C1_AgreeOnScoreTable ==
    (spos = epos) =>
        \A p \in Patterns :
            Confusion(metrics_at_threshold(ys, xs, SCORES_BY_PATTERN[p + 1]))
                = Confusion(EvalRow(counts_global, SCORES_BY_PATTERN[p + 1]))

\* ----------------------------------------------------------- claims: metrics

\* The sum of the cells of label l over the patterns in S.
RECURSIVE CellSum(_, _, _)
CellSum(cnt, S, l) ==
    IF S = {} THEN 0
    ELSE LET p == CHOOSE q \in S : TRUE
         IN  cnt[p][l] + CellSum(cnt, S \ {p}, l)

\* The patterns whose score reaches thr.
Reaching(thr) == {p \in Patterns : SCORES_BY_PATTERN[p + 1] >= thr}

\* The histogram {pattern 0: (100, 0), pattern 7: (0, 50)}.
ScenarioHistogram ==
    [p \in Patterns |-> [l \in Labels |->
        IF p = 0 /\ l = 0 THEN 100 ELSE IF p = 7 /\ l = 1 THEN 50 ELSE 0]]

\* C2: every row that eval_thresholds_from_counts returns has tp = the label-1
\* counts of exactly the patterns with score >= threshold, fp = the label-0
\* counts of those patterns, fn and tn = the label-1 and label-0 counts of
\* the remaining patterns; for {0: (100, 0), 7: (0, 50)} the row of
\* threshold 0.5 has tp = 50, fp = 0, tn = 100, fn = 0.
C2_ConfusionFromCounts ==
    (epc = "done") =>
        /\ \A i \in DOMAIN rows_global :
            LET r == rows_global[i]
                S == Reaching(r.threshold)
            IN  /\ r.tp = CellSum(counts_global, S, 1)
                /\ r.fp = CellSum(counts_global, S, 0)
                /\ r.fn = CellSum(counts_global, Patterns \ S, 1)
                /\ r.tn = CellSum(counts_global, Patterns \ S, 0)
        /\ (counts_global = ScenarioHistogram /\ threshold_arg = <<Half>>) =>
            \E i \in DOMAIN rows_global :
                /\ rows_global[i].threshold = Half
                /\ Confusion(rows_global[i]) = <<50, 0, 100, 0>>

\* The scenario has been evaluated, and some row's threshold is a score that
\* an occupied pattern has exactly.
C2_Witness ==
    /\ epc = "done"
    /\ counts_global = ScenarioHistogram
    /\ threshold_arg = <<Half>>
    /\ \E i \in DOMAIN rows_global :
        /\ rows_global[i].threshold = SCORES_BY_PATTERN[8]
        /\ rows_global[i].tp = 50

\* ------------------------------------------------------ claims: binarization

\* All three raw detector values of the row are finite numbers.
AllFinite(r) == isfinite(r.rep_sm) /\ isfinite(r.rep_cr) /\ isfinite(r.rep_ph)

\* The flag of a finite value v against tau.
RefFlag(v, tau) == IF v >= tau THEN 1 ELSE 0

\* The output row of a raw row whose values are finite.
RefBinRow(r) ==
    [fam |-> r.fam, y |-> r.y,
     sm |-> Num(RefFlag(r.rep_sm.v, TAU.STRING_MINHASH)),
     cr |-> Num(RefFlag(r.rep_cr.v, TAU.CODE_REGION_LIST)),
     ph |-> Num(RefFlag(r.rep_ph.v, TAU.PROGRAM_HEADER_VECTOR))]

\* C5: a record with a missing or non-finite detector value produces no
\* output row, so the rows written are as many as the records read whose
\* three values are finite, and every row of a written table is the
\* binarization (1 when value >= tau, else 0) of such a record.
C5_Binarization ==
    /\ total_out = Len(SelectSeq(SubSeq(data, 1, wpos), AllFinite))
    /\ \A i \in DOMAIN table :
        \E j \in 1..wpos : AllFinite(data[j]) /\ table[i] = RefBinRow(data[j])

\* ---------------------------------------------------- claims: weight learner

\* The bit vector of pattern p, highest bit first.
BitsOf(p) == <<(p \div 4) % 2, (p \div 2) % 2, p % 2>>

\* The design rows of pattern p and label l.
RowsOf(p, l) == {i \in DOMAIN design : design[i].X = BitsOf(p) /\ design[i].y = l}

\* The tolerance 1e-6 on the sum of the weights.
Tolerance == One \div (10 ^ 6)

\* The entries of w are non-negative and sum to 1 within the tolerance.
IsWeightVector(w) ==
    /\ \A i \in DOMAIN w : w[i] >= 0
    /\ SeqSum(w) - One <= Tolerance
    /\ One - SeqSum(w) <= Tolerance

\* C11: the design holds, for every pattern p and label l, one row (bits of
\* p, l, counts[p][l]) iff counts[p][l] > 0, and no other row: at most 16
\* rows, none of weight 0, and the weights sum to the histogram's total.
C11_DesignRows ==
    (lpc \notin {"scan", "error"}) =>
        /\ \A p \in Patterns, l \in Labels :
              /\ Cardinality(RowsOf(p, l)) = IF counts[p][l] > 0 THEN 1 ELSE 0
              /\ \A i \in RowsOf(p, l) : design[i].w = counts[p][l]
        /\ Len(design) = Cardinality({<<p, l>> \in Patterns \X Labels : counts[p][l] > 0})
        /\ Len(design) <= 16
        /\ \A i \in DOMAIN design : design[i].w # 0
        /\ SumOver([i \in DOMAIN design |-> design[i].w], DOMAIN design) = Total(counts)

\* The design of the histogram whose sixteen cells are all occupied.
C11_Witness ==
    /\ lpc = "fit"
    /\ counts = FullHistogram
    /\ Len(design) = 16

\* C12: the post-processing of a fitted coefficient vector, in
\* find_weights.py and in train_weights.py, gives non-negative weights that
\* sum to 1 (within 1e-6): a negative coefficient gets weight 0, a clipped
\* coefficient c gets c / sum when the sum of the clipped coefficients is
\* positive, and every feature gets 1/n_features when that sum is 0.
C12_WeightsAreNormalized ==
    (lpc \in {"fitted", "done"}) =>
        \A w \in {weights, TrainWeightsPostProcess(coef)} :
            LET pos_sum == SumOver([i \in DOMAIN coef |-> IF coef[i] > 0 THEN coef[i] ELSE 0],
                                   DOMAIN coef)
            IN  /\ DOMAIN w = DOMAIN coef
                /\ IsWeightVector(w)
                /\ \A i \in DOMAIN coef : coef[i] < 0 /\ pos_sum > 0 => w[i] = 0
                /\ pos_sum > 0 =>
                      \A i \in DOMAIN coef :
                          coef[i] >= 0 =>
                              /\ w[i] * pos_sum - coef[i] * One <= pos_sum
                              /\ coef[i] * One - w[i] * pos_sum <= pos_sum
                /\ pos_sum = 0 =>
                      \A i \in DOMAIN coef :
                          /\ w[i] * Len(coef) - One <= Len(coef)
                          /\ One - w[i] * Len(coef) <= Len(coef)

\* A fit has ended with a negative and two positive coefficients.
C12_Witness ==
    /\ lpc = "fitted"
    /\ coef = <<-2, 1, 3>>
    /\ weights[1] = 0 /\ weights[3] > weights[2]

\* C13: once main() is past the scan of a histogram of total count 0, it has
\* failed in build_weighted_design: clf.fit was never called, no model is
\* written, and nothing of main() runs after the error.
C13_EmptyHistogramIsFatal ==
    (Total(counts) = 0 /\ lpc # "scan") =>
        /\ lpc = "error"
        /\ fit_calls = 0
        /\ model_out = <<>>
        /\ ~ENABLED (\E c \in Coefs : Fit(c))
        /\ ~ENABLED WriteModel

\* main() has failed on the empty histogram.
C13_Witness ==
    /\ counts = ZeroCounts
    /\ lpc = "error"
    /\ fit_calls = 0

\* C14: for a non-empty histogram whose label-1 counts are all 0 the learner
\* does not fail: once past the fit it holds a weight vector with
\* non-negative entries summing to 1.
C14_LabelZeroOnlyIsFitted ==
    (/\ Total(counts) > 0
     /\ \A p \in Patterns : counts[p][1] = 0
     /\ lpc \notin {"scan", "fit"}) =>
        /\ lpc \in {"fitted", "done"}
        /\ IsWeightVector(weights)

\* ------------------------------------------------ claims: threshold selection

\* C15: once main() of evaluate.py is past the scan of a histogram that is
\* all zeros, it has reported no best threshold and holds no operating-point
\* rows.
C15_EmptyHistogramIsFatal ==
    (Total(counts_global) = 0 /\ epc # "scan") =>
        /\ rows_global = <<>>
        /\ best_idx = -1

\* The positives and the negatives of the sample.
SamplePos == Cardinality({i \in DOMAIN ys : ys[i] = 1})

SampleNeg == Cardinality({i \in DOMAIN ys : ys[i] = 0})

\* tp and fp of the sample at threshold t.
TpAt(t) == Cardinality({i \in DOMAIN xs : xs[i] >= t /\ ys[i] = 1})

FpAt(t) == Cardinality({i \in DOMAIN xs : xs[i] >= t /\ ys[i] = 0})

\* Youden's J at threshold t, times the positives and the negatives.
JAt(t) == TpAt(t) * SampleNeg - FpAt(t) * SamplePos

\* C16: for a sample with both classes, the Youden threshold of
\* pick_thresholds is an achievable threshold (a score of the sample) whose
\* J = tpr - fpr is >= that of every other one, and the lowest of those that
\* share the maximal J.
C16_YoudenPicksLowestMaximum ==
    (spc = "picked" /\ SamplePos > 0 /\ SampleNeg > 0) =>
        /\ best_j.threshold \in Range(xs)
        /\ \A t \in Range(xs) : JAt(t) <= JAt(best_j.threshold)
        /\ \A t \in Range(xs) :
              JAt(t) = JAt(best_j.threshold) => best_j.threshold <= t

\* evaluate.py: the thresholds evaluated are the distinct scores of the table
\* and the ones given, ascending; the best row has the greatest J, and is the
\* first, so of the lowest threshold, among the rows that share it.
C16_EvaluatorPicksLowestMaximum ==
    (epc = "done") =>
        /\ {rows_global[i].threshold : i \in DOMAIN rows_global}
              = Range(SCORES_BY_PATTERN) \cup Range(threshold_arg)
        /\ \A i \in DOMAIN rows_global : \A k \in DOMAIN rows_global :
              i < k => rows_global[i].threshold < rows_global[k].threshold
        /\ \A i \in DOMAIN rows_global :
              /\ ~RatLess(rows_global[best_idx].youdenJ, rows_global[i].youdenJ)
              /\ i < best_idx =>
                    RatLess(rows_global[i].youdenJ, rows_global[best_idx].youdenJ)

\* The achievable thresholds at which the sample's tpr reaches target percent.
Reach(target) ==
    {t \in Range(xs) : SamplePos > 0 /\ TpAt(t) * 100 >= target * SamplePos}

\* C17: for each recall target, pick_thresholds returns an achievable
\* threshold of tpr >= target whose fpr is least among all such thresholds,
\* with the metrics at it, and the 'not reachable' outcome (NaN threshold, no
\* counts) when there is none; for 100 negatives of score 0 and 50 positives
\* of score 1 the target 0.99 is reached with tpr = 1 and fpr = 0.
C17_RecallFloor ==
    (spc = "picked") =>
        /\ \A k \in DOMAIN RECALL_TARGETS :
              LET r == rec_thrs[k]
                  reach == Reach(RECALL_TARGETS[k])
              IN  IF reach = {}
                  THEN r.threshold = NaN /\ r.tp = None /\ r.fp = None
                  ELSE /\ r.threshold \in reach
                       /\ \A t \in reach : FpAt(r.threshold) <= FpAt(t)
                       /\ r.tp = TpAt(r.threshold) /\ r.fp = FpAt(r.threshold)
        /\ (SamplePos = 50 /\ SampleNeg = 100 /\ TpAt(One) = 50 /\ FpAt(1) = 0) =>
              /\ rec_thrs[2].threshold <= One
              /\ rec_thrs[2].tp = 50 /\ rec_thrs[2].fp = 0

\* ------------------------------------------------- claims: metric derivation

\* q is a value, and is num / den when den is positive and 0 when den is 0.
IsQuotient(q, num, den) ==
    /\ q.d > 0
    /\ IF den > 0 THEN q.n * den = num * q.d ELSE q.n = 0

\* The rates of m are the quotients of the counts, 0 where the denominator
\* is 0, and its youdenJ is tpr - fpr.
MetricsOfCounts(m, tp, fp, tn, fn) ==
    /\ IsQuotient(m.tpr, tp, tp + fn)
    /\ IsQuotient(m.fpr, fp, fp + tn)
    /\ IsQuotient(m.precision, tp, tp + fp)
    /\ IsQuotient(m.specificity, tn, tn + fp)
    /\ IsQuotient(m.accuracy, tp + tn, tp + fp + tn + fn)
    /\ IsQuotient(m.f1, 2 * tp, 2 * tp + fp + fn)
    /\ m.youdenJ.d > 0
    /\ m.youdenJ.n * (m.tpr.d * m.fpr.d)
          = (m.tpr.n * m.fpr.d - m.fpr.n * m.tpr.d) * m.youdenJ.d

\* C18: in every row of eval_thresholds_from_counts, and in what
\* metrics_from_counts returns for the same counts, tpr, fpr, precision,
\* specificity, accuracy and f1 are defined, equal their quotient when its
\* denominator is positive and 0 when it is 0, and youdenJ = tpr - fpr.
C18_MetricsAreDefined ==
    (epc = "done") =>
        \A i \in DOMAIN rows_global :
            LET r == rows_global[i]
            IN  /\ r.tp >= 0 /\ r.fp >= 0 /\ r.tn >= 0 /\ r.fn >= 0
                /\ MetricsOfCounts(r, r.tp, r.fp, r.tn, r.fn)
                /\ MetricsOfCounts(metrics_from_counts(r.tp, r.fp, r.tn, r.fn),
                                   r.tp, r.fp, r.tn, r.fn)

\* Rows have been derived from a histogram without positives, one of them at
\* a threshold that no negative reaches (tp + fn = tp + fp = 2tp + fp + fn =
\* 0 with fp + tn > 0), and from the histogram that is all zeros.
C18_Witness ==
    /\ epc = "done"
    /\ \E i \in DOMAIN rows_global :
        LET r == rows_global[i]
        IN  \/ r.tp + r.fn = 0 /\ r.tp + r.fp = 0 /\ r.tn > 0
            \/ r.tp + r.fp + r.tn + r.fn = 0

\* ------------------------------------------------------- claims: JSON scan

\* A record that counts: an object whose score is a finite number.
ValidRecord(rec) ==
    rec.shape = "object" /\ Floatable(rec.score_weighted)
        /\ isfinite(rec.score_weighted)

\* The valid records of the first k files of the folder whose anchor names a
\* family in fams.
RECURSIVE ValidRecordsIn(_, _, _)
ValidRecordsIn(dir, k, fams) ==
    IF k = 0 THEN 0
    ELSE LET file == dir[k]
             here == IF AnchorFamily(file) \in fams
                     THEN Cardinality({i \in DOMAIN file.data :
                                          ValidRecord(file.data[i])})
                     ELSE 0
         IN  here + ValidRecordsIn(dir, k - 1, fams)

\* The families that the anchors of the folder name.
AnchorFamilies == {AnchorFamily(json_dir[k]) : k \in DOMAIN json_dir} \ {NoName}

\* C19: at every point of the JSON scan, the records counted (rows, and
\* tp + fp + tn + fn) are all the valid records of the files scanned so far
\* that have an anchor: a record without a finite numeric score, or one that
\* is malformed otherwise, takes nothing from the count of the valid records
\* next to it in its file or in a later file.
C19_BadRecordIsDroppedAlone ==
    /\ overall.rows = ValidRecordsIn(json_dir, jfile, AnchorFamilies)
    /\ overall.tp + overall.fp + overall.tn + overall.fn = overall.rows
    /\ \A f \in DOMAIN fam_counts :
          fam_counts[f].rows = ValidRecordsIn(json_dir, ffile, {f})

\* ------------------------------------------------------ claims: dedup rule

\* The sequences of a sequence of sequences, one after the other.
RECURSIVE Flatten(_)
Flatten(ss) == IF ss = <<>> THEN <<>> ELSE Head(ss) \o Flatten(Tail(ss))

\* The objects that the loops of preprocess have taken so far.
Processed ==
    Flatten([k \in 1..rfile |-> iter_filecomparisons(input_dir[k])])
        \o (IF rfile < Len(input_dir)
            THEN SubSeq(iter_filecomparisons(input_dir[rfile + 1]), 1, robj)
            ELSE <<>>)

\* The rows emitted so far: those written and those in the buffer.
Emitted == Flatten(chunks) \o buffer

\* Both file names are present and src_file < tgt_file.
Keeps(obj) ==
    /\ obj.secondFileName # NoName /\ obj.fileName # NoName
    /\ StrLess(obj.secondFileName, obj.fileName)

\* The times the comparison of src with tgt is among the objects objs.
Reports(objs, src, tgt) ==
    Cardinality({i \in DOMAIN objs :
                    objs[i].secondFileName = src /\ objs[i].fileName = tgt})

\* The rows of rows that are of the files a and b, in either direction.
RowsOfPair(rows, a, b) ==
    Cardinality({i \in DOMAIN rows :
                    {rows[i].src_file, rows[i].tgt_file} = {a, b}})

\* C20: the rows emitted are, in order, those of the objects taken that have
\* both file names and src_file < tgt_file; so every row has src_file <
\* tgt_file, none is of a file with itself, a pair reported once in each
\* direction has exactly one row, and total_pairs_kept <= total_pairs_seen.
C20_DedupRule ==
    /\ LET kept == SelectSeq(Processed, Keeps)
       IN  /\ Len(Emitted) = Len(kept)
           /\ \A i \in DOMAIN kept :
                 /\ Emitted[i].src_file = kept[i].secondFileName
                 /\ Emitted[i].tgt_file = kept[i].fileName
    /\ \A i \in DOMAIN Emitted :
          /\ StrLess(Emitted[i].src_file, Emitted[i].tgt_file)
          /\ Emitted[i].src_file # Emitted[i].tgt_file
    /\ \A a \in RepNames \ {NoName} : \A b \in RepNames \ {NoName, a} :
          (Reports(Processed, a, b) = 1 /\ Reports(Processed, b, a) = 1)
              => RowsOfPair(Emitted, a, b) = 1
    /\ total_rows = Len(Processed)
    /\ kept_rows = Len(Emitted)
    /\ kept_rows <= total_rows
    /\ meta # <<>> => meta.total_pairs_kept <= meta.total_pairs_seen

\* The preprocessor is through a folder that reports b___1 and B___2 once in
\* each direction and u___1 with itself, and has emitted rows.
C20_Witness ==
    /\ rpc = "done"
    /\ Reports(Processed, BusyA, BusyB) = 1
    /\ Reports(Processed, BusyB, BusyA) = 1
    /\ Reports(Processed, UciA, UciA) >= 1
    /\ RowsOfPair(Emitted, BusyA, BusyB) = 1
    /\ meta.total_pairs_kept < meta.total_pairs_seen

\* ----------------------------------------- claims: subsampling and row cap

\* The valid rows among those the scanner has handed over so far.
ValidScanned == SelectSeq(SubSeq(Scanned, 1, spos), ScannerMask)

\* The entries of the first k of ys that are l.
CountIn(k, l) == Cardinality({i \in 1..k : ys[i] = l})

\* C21: under neg_pos_ratio r > 0 every valid positive row handed over is
\* kept, a negative is kept only where kept_negatives < r * kept_positives
\* held before it, so kept_negatives < r * kept_positives + 1 after every
\* kept row and no negative precedes the first positive; under r = 0 the
\* rows kept are all the valid rows, in order.
C21_NegativeSubsampling ==
    /\ neg_pos_ratio.num > 0 =>
          /\ CountIn(Len(ys), 1)
                = Cardinality({i \in DOMAIN ValidScanned : ValidScanned[i].y.v = 1})
          /\ pos = CountIn(Len(ys), 1) /\ neg = CountIn(Len(ys), 0)
          /\ \A k \in DOMAIN ys :
                /\ ys[k] = 0 =>
                      CountIn(k - 1, 0) * neg_pos_ratio.den
                          < CountIn(k - 1, 1) * neg_pos_ratio.num
                /\ CountIn(k, 0) * neg_pos_ratio.den
                      < CountIn(k, 1) * neg_pos_ratio.num + neg_pos_ratio.den
          /\ ys # <<>> => ys[1] = 1
    /\ neg_pos_ratio.num = 0 =>
          /\ ys = [i \in DOMAIN ValidScanned |-> ValidScanned[i].y.v]
          /\ xs = [i \in DOMAIN ValidScanned |-> WeightedScore(ValidScanned[i])]
    /\ Len(xs) = Len(ys)

\* A scan under a positive ratio has returned with a negative kept and
\* another one discarded.
C21_Witness ==
    /\ spc = "done"
    /\ neg_pos_ratio.num > 0
    /\ neg > 0
    /\ Len(ys) < Len(ValidScanned)

\* C22: when max_rows > 0 the scan returns at most max_rows rows, whatever
\* the batches are; when max_rows is 0 it returns every retained row of every
\* batch of the stream.
C22_RowCap ==
    (spc = "done") =>
        /\ max_rows > 0 => Len(ys) <= max_rows
        /\ max_rows = 0 =>
              /\ spos = Len(Scanned)
              /\ neg_pos_ratio.num = 0 => Len(ys) = Len(ValidScanned)

\* ----------------------------------------------- claims: monotonicity

\* C23: of two rows of eval_thresholds_from_counts with thresholds t1 <= t2,
\* the one of t1 has tp and fp at least those of t2, fn and tn at most those
\* of t2, and tpr and fpr not below those of t2.
C23_ThresholdMonotonicity ==
    (epc = "done") =>
        \A i \in DOMAIN rows_global : \A k \in DOMAIN rows_global :
            LET r1 == rows_global[i]
                r2 == rows_global[k]
            IN  r1.threshold <= r2.threshold =>
                    /\ r1.tp >= r2.tp /\ r1.fp >= r2.fp
                    /\ r1.fn <= r2.fn /\ r1.tn <= r2.tn
                    /\ ~RatLess(r1.tpr, r2.tpr)
                    /\ ~RatLess(r1.fpr, r2.fpr)

\* Rows have been derived of which the one of the higher threshold has lost
\* positives and negatives.
C23_Witness ==
    /\ epc = "done"
    /\ \E i \in DOMAIN rows_global : \E k \in DOMAIN rows_global :
          /\ rows_global[i].threshold < rows_global[k].threshold
          /\ rows_global[i].tp > rows_global[k].tp
          /\ rows_global[i].fp > rows_global[k].fp

\* ------------------------------------------------ claims: histogram growth

\* Every cell of the histogram b is at least the cell of a.
CellsGrow(a, b) == \A p \in Patterns : \A l \in Labels : b[p][l] >= a[p][l]

\* C24: in every step, every cell of the histogram of find_weights.py, of the
\* global histogram of evaluate.py and of each per-family histogram keeps or
\* raises its value, no per-family histogram goes away, and a batch none of
\* whose rows passes the mask leaves every cell as it was.
C24_CountsOnlyGrow ==
    [][/\ CellsGrow(counts, counts')
       /\ CellsGrow(counts_global, counts_global')
       /\ \A f \in DOMAIN counts_by_family :
             /\ f \in DOMAIN counts_by_family'
             /\ CellsGrow(counts_by_family[f], counts_by_family'[f])
       /\ (lpos' > lpos
              /\ SelectSeq(SubSeq(data, lpos + 1, lpos'), LearnerMask) = <<>>)
             => counts' = counts
       /\ (epos' > epos
              /\ SelectSeq(SubSeq(Scanned, epos + 1, epos'), EvaluatorMask) = <<>>)
             => /\ counts_global' = counts_global
                /\ counts_by_family' = counts_by_family]_vars

\* evaluate.py --by-family is through a dataset of two rows of one pattern
\* and label, one in each of two batches or both in one: a cell holds 2.
C24_Witness ==
    /\ "evaluate" \in scripts /\ by_family
    /\ epos = 2
    /\ \E p \in Patterns : \E l \in Labels :
          /\ counts_global[p][l] = 2
          /\ \E f \in DOMAIN counts_by_family : counts_by_family[f][p][l] = 2

\* ------------------------------------------- claims: histogram immutability

\* The sequence s from its last entry to its first.
Reverse(s) == [i \in DOMAIN s |-> s[Len(s) + 1 - i]]

\* C25: the step in which evaluate.py derives its rows leaves every cell of
\* the global and of the per-family histograms as it was, and the step in
\* which find_weights.py builds its design leaves its histogram as it was;
\* the row of each threshold is the same when the thresholds are evaluated
\* in the reverse order or twice over.
C25_HistogramIsImmutable ==
    [][/\ (epc = "scan" /\ epc' = "done") =>
             /\ counts_global' = counts_global
             /\ counts_by_family' = counts_by_family
             /\ LET thrs == [i \in DOMAIN rows_global' |-> rows_global'[i].threshold]
                    back == eval_thresholds_from_counts(counts_global', Reverse(thrs))
                    twice == eval_thresholds_from_counts(counts_global', thrs \o thrs)
                IN  \A i \in DOMAIN thrs :
                       /\ back[Len(thrs) + 1 - i] = rows_global'[i]
                       /\ twice[i] = rows_global'[i]
                       /\ twice[Len(thrs) + i] = rows_global'[i]
       /\ (lpc = "scan" /\ lpc' # "scan") =>
             /\ counts' = counts
             /\ lpc' = "fit" => design' = build_weighted_design(counts')]_vars

\* evaluate.py has derived its rows from a histogram that is not empty.
C25_Witness ==
    /\ epc = "done"
    /\ n_pos + n_neg > 0
    /\ rows_global # <<>>
    /\ \E p \in Patterns : counts_global[p][0] + counts_global[p][1] > 0

\* --------------------------------------------------- claims: chunked writing

\* The rows of the files of the output dataset, partition after partition.
RECURSIVE DatasetRows(_, _)
DatasetRows(files, parts) ==
    IF parts = {} THEN <<>>
    ELSE LET f == CHOOSE g \in parts : TRUE
         IN  files[f] \o DatasetRows(files, parts \ {f})

\* The times the row r is among rows.
Copies_of(rows, r) == Cardinality({i \in DOMAIN rows : rows[i] = r})

\* C26: when preprocess of rep_threshold has finished, the buffer is empty,
\* the output dataset holds every row that was kept as often as it was kept
\* and no other, whatever the number of flushes, and its row count is the
\* total_pairs_kept of _meta.json.
C26_ChunkedWritingLosesNothing ==
    (rpc = "done") =>
        LET written == DatasetRows(output_dir, DOMAIN output_dir)
        IN  /\ buffer = <<>>
            /\ \A i \in DOMAIN Emitted :
                  Copies_of(written, Emitted[i]) = Copies_of(Emitted, Emitted[i])
            /\ Len(written) = Len(Emitted)
            /\ Len(written) = meta.total_pairs_kept

\* ------------------------------------------------ claims: count conservation

\* c counts exactly rows records.
RowsAreCounted(c) == c.rows = c.tp + c.fp + c.tn + c.fn

\* C27: every row of eval_thresholds_from_counts has tp + fn = sample_pos =
\* the label-1 total of the histogram and fp + tn = sample_neg = its label-0
\* total, with tp, fp, tn and fn >= 0; in the JSON scan rows = tp + fp + tn +
\* fn after every file, after every record of the file that comes next, and
\* in the row returned.
C27_CountConservation ==
    /\ \A i \in DOMAIN rows_global :
          LET r == rows_global[i]
          IN  /\ r.tp + r.fn = r.sample_pos
              /\ r.sample_pos = CellSum(counts_global, Patterns, 1)
              /\ r.fp + r.tn = r.sample_neg
              /\ r.sample_neg = CellSum(counts_global, Patterns, 0)
              /\ r.tp >= 0 /\ r.fp >= 0 /\ r.tn >= 0 /\ r.fn >= 0
    /\ RowsAreCounted(overall)
    /\ jfile < Len(json_dir) =>
          LET file == json_dir[jfile + 1]
          IN  \A k \in 0..Len(file.data) :
                 RowsAreCounted(CountRecords(SubSeq(file.data, 1, k), BusyA,
                                             DEFAULT_THR, overall))
    /\ overall_row # <<>> =>
          /\ RowsAreCounted(overall_row)
          /\ overall_row.sample_pos = overall_row.tp + overall_row.fn
          /\ overall_row.sample_neg = overall_row.fp + overall_row.tn

\* Both scripts are through: rows of a histogram with both labels, and a
\* JSON scan that has counted records of three outcomes.
C27_Witness ==
    /\ epc = "done" /\ jpc = "done"
    /\ rows_global[1].sample_pos > 0 /\ rows_global[1].sample_neg > 0
    /\ overall.tp > 0 /\ overall.fp > 0 /\ overall.fn > 0
    /\ overall_row.rows = 3

\* ---------------------------------------------------- claims: TOTAL row

\* The sum of the counters of the families in fams.
RECURSIVE SumCounts(_, _)
SumCounts(cnt, fams) ==
    IF fams = {} THEN NoCounts
    ELSE LET f == CHOOSE g \in fams : TRUE
         IN  AddCounts(cnt[f], SumCounts(cnt, fams \ {f}))

\* C28: the tp, fp, tn, fn and rows of the TOTAL row that eval_by_family.py
\* returns are those of the records counted from the anchors of the selected
\* families, each record once, whatever the families list is.
C28_TotalCountsOnce ==
    (fpc = "done") =>
        LET total == fam_rows[Len(fam_rows)]
            counted == SumCounts(fam_counts, DOMAIN fam_counts)
        IN  /\ total.tp = counted.tp /\ total.fp = counted.fp
            /\ total.tn = counted.tn /\ total.fn = counted.fn
            /\ total.rows = counted.rows

\* ------------------------------------------------- claims: collected ELFs

\* The directories of an archive, each holding one entry or none.
ArchiveDirs == {"bin", "sbin", "lib"}

\* The entries: a directory, a file that is no ELF file, or an ELF file,
\* named sh, sh_1, lib.so or lib_1.so.
ArchiveEntries ==
    [name : {<<"s", "h">>, <<"s", "h", "_", "1">>,
             <<"l", "i", "b", ".", "s", "o">>,
             <<"l", "i", "b", "_", "1", ".", "s", "o">>},
     kind : {"dir", "file", "elf"}]

\* collect_elfs.py is run on one image.
InitCollect ==
    /\ data = <<>>
    /\ scripts = {"collect_elfs"}
    /\ families = {} /\ by_family = FALSE /\ threshold_arg = <<>>
    /\ KeepAll
    /\ LearnerInit
    /\ EvaluatorInit
    /\ ScannerInit
    /\ BinarizerInit
    /\ RepInit
    /\ JsonInit
    /\ \E ds \in SUBSET ArchiveDirs : tmp_path \in [ds -> ArchiveEntries]
    /\ has_archive \in BOOLEAN
    /\ CollectStart

NextCollect ==
    \/ CollectBegin
    \/ CollectEntry
    \/ CollectFinish

SpecCollect == InitCollect /\ [][NextCollect]_vars

\* The ELF files of the archive.
ElfFiles == {d \in DOMAIN tmp_path : tmp_path[d].kind = "elf"}

\* C30: after the walk of an archive whose elfs/ was empty, elfs/ holds as
\* many files as the archive has ELF files: no two of them were copied to
\* one name.
C30_DestinationNamesAreDistinct ==
    (cpc = "done" /\ has_archive) =>
        Cardinality(DOMAIN elfs_dir) = Cardinality(ElfFiles)

\* ------------------------------------------- claims: reachable recall floor

\* The lowest achievable threshold: the minimum score of the sample.
MinScore == CHOOSE t \in Range(xs) : \A u \in Range(xs) : t <= u

\* C29: for a sample with both classes, the last candidate of
\* pick_thresholds is the minimum score, which predicts every record
\* positive (tpr = 1), so every target up to 1 has a candidate and both
\* recall targets get a threshold that reaches them; the 'not reachable'
\* outcome occurs only for a sample without positives.
C29_RecallFloorIsReachable ==
    (spc = "picked") =>
        /\ (SamplePos > 0 /\ SampleNeg > 0) =>
              /\ roc[Len(roc)].thr = MinScore
              /\ roc[Len(roc)].tps = SamplePos
              /\ roc[Len(roc)].fps = SampleNeg
              /\ metrics_at_threshold(ys, xs, MinScore).tp = SamplePos
              /\ metrics_at_threshold(ys, xs, MinScore).fp = SampleNeg
              /\ \A target \in 0..100 : RecallIndex(roc, target) # 0
        /\ \A k \in DOMAIN RECALL_TARGETS :
              IF SamplePos = 0
              THEN rec_thrs[k].threshold = NaN
              ELSE /\ rec_thrs[k].threshold \in Range(xs)
                   /\ rec_thrs[k].tp * 100 >= RECALL_TARGETS[k] * SamplePos

\* A sample of both classes whose recall 0.99 only the minimum score
\* reaches, below other candidates.
C29_Witness ==
    /\ spc = "picked" /\ SamplePos > 0 /\ SampleNeg > 0
    /\ Len(roc) > 1
    /\ rec_thrs[2].threshold = MinScore
    /\ rec_thrs[2].tp = SamplePos /\ rec_thrs[2].fp = SampleNeg
====
